---------------------------- MODULE Spec2Model ----------------------------
(***************************************************************************)
(* A model of rusolve: the Problem builder, the dispatcher and the three   *)
(* engines (Gaussian elimination, two-phase Simplex, brute force).         *)
(*                                                                         *)
(* Numbers.  The program computes in f64, and so does the model: every     *)
(* sum, difference, product and quotient is rounded to the nearest f64,    *)
(* ties to even.  A value with a short significand is kept as the pair     *)
(* <<n, d>> of the number n / d, d a power of two; any other finite value  *)
(* is kept as sign, exponent and 53-bit significand.  +inf, -inf and NaN   *)
(* are values of their own.  The sign of a zero is not kept and the        *)
(* exponent is not bounded: overflow and subnormal numbers, which need     *)
(* magnitudes beyond 1e308 or below 1e-308, do not occur.                  *)
(*                                                                         *)
(* Indices.  Rows, columns, variable indices and buffer offsets are        *)
(* 0-based as in the program; containers are functions over 0..len-1.      *)
(* The lists of the Problem are sequences (position p is element p+1).     *)
(* An Expression is the map from its keys to its coefficients.             *)
(***************************************************************************)
EXTENDS Integers, Sequences, FiniteSets, TLC

VARIABLES
    variables,      \* Problem.variables: sequence of [index, kind, min, max]
    constraints,    \* Problem.constraints: sequence of [expr, kind, constant]
    objective,      \* Problem.objective: NoObjective or [expr, kind]
    pc,             \* position of the running solve
    via,            \* entry point of the running solve
    engine,         \* engine that was entered
    matrix,         \* the engine's Matrix
    gauss,          \* gaussian_elimination locals: pivot_row, pivot_col
    splx,           \* simplex locals: iteration, num_artificial and history
    brute,          \* brute locals: vars, best_obj, solution, cursor, checks
    result,         \* what the last call returned
    previous        \* what the solve before this one returned, if any

vars == <<variables, constraints, objective, pc, via, engine, matrix, gauss,
          splx, brute, result, previous>>

problemVars == <<variables, constraints, objective>>
engineVars == <<pc, via, engine, matrix, gauss, splx, brute, result>>

-----------------------------------------------------------------------------
(* Bounds of the model                                                     *)

MaxVars == 2
MaxCons == 1
MaxAddVars == 2
MaxCoeff == 1
MaxConst == 1
MaxInt == 1
GaussMaxN == 3
GaussMaxSmall == 2
GaussMaxCoeff == 1
SimplexMaxDim == 3
SimplexMaxCoeff == 1
BruteMaxVars == 2
BruteMaxCons == 1
BruteMaxInt == 1
BruteMaxCoeff == 1
MaxKey == 2
TermMaxKey == 3
TermMaxVars == 2
GridMax == 2
FeasMax == 5

-----------------------------------------------------------------------------
(* f64 values, with the rounding of IEEE 754 double precision              *)

Abs(x) == IF x < 0 THEN -x ELSE x

Min2(a, b) == IF a < b THEN a ELSE b

Max2(a, b) == IF a < b THEN b ELSE a

RECURSIVE Gcd(_, _)
Gcd(a, b) == IF b = 0 THEN a ELSE Gcd(b, a % b)

Pow2(k) == 2 ^ k

RECURSIVE IsPow2(_)
IsPow2(d) == d = 1 \/ (d > 1 /\ d % 2 = 0 /\ IsPow2(d \div 2))

\* the k with d = 2^k
Log2(d) == CHOOSE k \in 0..30 : 2 ^ k = d

\* the non-finite values of f64; a denominator of 0 marks them
NaN == <<0, 0>>
PosInf == <<2, 0>>
NegInf == <<-2, 0>>

\* a finite value is <<n, d>>, the number n / d with d a power of two, when
\* it is 0 or has |n| < 2^30 and d <= 2^30 in lowest terms; every other
\* finite value is <<s, e, m>>, the number s * M * 2^e with the 53-bit
\* significand M kept in m as four digits of 14 bits, the lowest first
IsWide(x) == Len(x) = 3
IsFinite(x) == IsWide(x) \/ x[2] # 0
IsNaN(x) == x = NaN

\* -1, 0 or 1: the sign of a finite or infinite value
Sign(x) == IF x[1] > 0 THEN 1 ELSE IF x[1] < 0 THEN -1 ELSE 0

InfOf(s) == IF s > 0 THEN PosInf ELSE NegInf

Norm(n, d) ==
    IF n = 0 THEN <<0, 1>>
    ELSE LET g == Gcd(Abs(n), Abs(d))
             s == IF d < 0 THEN -1 ELSE 1
         IN  <<s * (n \div g), s * (d \div g)>>

R(k) == <<k, 1>>

Zero == <<0, 1>>
One == <<1, 1>>

\* the width of the significand of f64, and the digits it is kept in
MantBits == 53
LimbBits == 14
LimbBase == 16384
SmallBits == 30

\* natural numbers of any size: sequences of digits, the lowest first
Limb(a, i) == IF i >= 1 /\ i <= Len(a) THEN a[i] ELSE 0

RECURSIVE BTrim(_)
BTrim(a) ==
    IF Len(a) > 0 /\ a[Len(a)] = 0 THEN BTrim(SubSeq(a, 1, Len(a) - 1)) ELSE a

\* a in n digits; the concatenation makes the digits a sequence
BPad(a, n) == [i \in 1..n |-> Limb(a, i)] \o <<>>

\* the number of bits of one digit
BitsOfInt(n) == IF n = 0 THEN 0 ELSE CHOOSE k \in 1..LimbBits : 2 ^ (k - 1) <= n /\ n < 2 ^ k

\* the number of bits of a
BBits(a) ==
    LET t == BTrim(a)
    IN  IF Len(t) = 0 THEN 0
        ELSE (Len(t) - 1) * LimbBits + BitsOfInt(t[Len(t)])

RECURSIVE BCmpFrom(_, _, _)
BCmpFrom(a, b, i) ==
    IF i = 0 THEN 0
    ELSE IF Limb(a, i) < Limb(b, i) THEN -1
    ELSE IF Limb(a, i) > Limb(b, i) THEN 1
    ELSE BCmpFrom(a, b, i - 1)

\* -1, 0 or 1 as a < b, a = b or a > b
BCmp(a, b) == BCmpFrom(a, b, Max2(Len(a), Len(b)))

RECURSIVE BAddFrom(_, _, _, _, _)
BAddFrom(a, b, i, n, carry) ==
    IF i > n THEN IF carry = 0 THEN <<>> ELSE <<carry>>
    ELSE LET t == Limb(a, i) + Limb(b, i) + carry
         IN  <<t % LimbBase>> \o BAddFrom(a, b, i + 1, n, t \div LimbBase)

BAdd(a, b) == BAddFrom(a, b, 1, Max2(Len(a), Len(b)), 0)

RECURSIVE BSubFrom(_, _, _, _, _)
BSubFrom(a, b, i, n, borrow) ==
    IF i > n THEN <<>>
    ELSE LET t == Limb(a, i) - Limb(b, i) - borrow
         IN  IF t < 0 THEN <<t + LimbBase>> \o BSubFrom(a, b, i + 1, n, 1)
             ELSE <<t>> \o BSubFrom(a, b, i + 1, n, 0)

\* a - b for a >= b
BSub(a, b) == BTrim(BSubFrom(a, b, 1, Max2(Len(a), Len(b)), 0))

RECURSIVE BMulSmallFrom(_, _, _, _)
BMulSmallFrom(a, k, i, carry) ==
    IF i > Len(a) THEN IF carry = 0 THEN <<>> ELSE <<carry>>
    ELSE LET t == a[i] * k + carry
         IN  <<t % LimbBase>> \o BMulSmallFrom(a, k, i + 1, t \div LimbBase)

\* a * k for one digit k
BMulSmall(a, k) == BMulSmallFrom(a, k, 1, 0)

BZeros(n) == [i \in 1..n |-> 0] \o <<>>

RECURSIVE BMulFrom(_, _, _)
BMulFrom(a, b, i) ==
    IF i > Len(b) THEN <<>>
    ELSE BAdd(BZeros(i - 1) \o BMulSmall(a, b[i]), BMulFrom(a, b, i + 1))

BMul(a, b) == BTrim(BMulFrom(a, b, 1))

\* a * 2^k
BShl(a, k) ==
    BTrim(BZeros(k \div LimbBits) \o BMulSmall(a, Pow2(k % LimbBits)))

\* a \div 2^k
BShr(a, k) ==
    LET w == k \div LimbBits
        j == k % LimbBits
        t == IF w >= Len(a) THEN <<>> ELSE SubSeq(a, w + 1, Len(a))
    IN  BTrim([i \in 1..Len(t) |->
                  (t[i] \div Pow2(j))
                  + (Limb(t, i + 1) % Pow2(j)) * Pow2(LimbBits - j)] \o <<>>)

\* bit i of a, bit 0 the lowest
BBit(a, i) == (Limb(a, (i \div LimbBits) + 1) \div Pow2(i % LimbBits)) % 2

\* a % 2^k is not 0
BLowNonZero(a, k) ==
    \/ \E i \in 1..(k \div LimbBits) : Limb(a, i) # 0
    \/ Limb(a, (k \div LimbBits) + 1) % Pow2(k % LimbBits) # 0

\* the number of zero bits below the lowest one bit of a, for a > 0
BTrailingZeros(a) ==
    LET i == CHOOSE j \in 1..Len(a) : a[j] # 0 /\ \A h \in 1..(j - 1) : a[h] = 0
        k == CHOOSE j \in 0..(LimbBits - 1) :
                a[i] % (2 ^ (j + 1)) # 0 /\ a[i] % (2 ^ j) = 0
    IN  (i - 1) * LimbBits + k

BFromInt(n) ==
    BTrim(<<n % LimbBase, (n \div LimbBase) % LimbBase,
            n \div (LimbBase * LimbBase)>>)

\* for a < 2^30
BToInt(a) == Limb(a, 1) + Limb(a, 2) * LimbBase + Limb(a, 3) * LimbBase * LimbBase

\* the finite non-zero value s * M * 2^e with a significand of 53 bits, in
\* the form the model keeps it
Canon(s, e, m) ==
    LET Small(E, n) == IF E >= 0 THEN <<s * n * Pow2(E), 1>>
                       ELSE <<s * n, Pow2(-E)>>
        Odd(t, bits, E) ==
            IF bits <= SmallBits
                /\ IF E >= 0 THEN bits + E <= SmallBits ELSE -E <= SmallBits
            THEN Small(E, BToInt(BShr(m, t)))
            ELSE <<s, e, BPad(m, 4)>>
        Zeros(t) == Odd(t, MantBits - t, e + t)
    IN  Zeros(BTrailingZeros(m))

\* round to nearest, ties to even: the f64 nearest to s * (N + f) * 2^e,
\* where 0 <= f < 1 and sticky says that f > 0 (N has 55 bits or more then)
Round(s, N, e, sticky) ==
    LET Final(e1, M1, carry) ==
            Canon(s, IF carry THEN e1 + 1 ELSE e1,
                  IF carry THEN BShr(M1, 1) ELSE M1)
        Carry(e1, M1) == Final(e1, M1, BBits(M1) > MantBits)
        Up(M0, half, more) ==
            IF half /\ (more \/ BBit(M0, 0) = 1) THEN BAdd(M0, <<1>>) ELSE M0
        Bits(L) ==
            Carry(e + L - MantBits,
                  IF L <= MantBits THEN BShl(N, MantBits - L)
                  ELSE Up(BShr(N, L - MantBits),
                          BBit(N, L - MantBits - 1) = 1,
                          sticky \/ BLowNonZero(N, L - MantBits - 1)))
    IN  Bits(BBits(N))

\* a finite non-zero value as sign, exponent and 53-bit significand
Unpack(x) ==
    LET Shifted(N, sh) ==
            [s |-> IF x[1] < 0 THEN -1 ELSE 1,
             e |-> -Log2(x[2]) - sh,
             m |-> BPad(BShl(N, sh), 4)]
        Digits(N) == Shifted(N, MantBits - BBits(N))
    IN  IF IsWide(x) THEN [s |-> x[1], e |-> x[2], m |-> x[3]]
        ELSE Digits(BFromInt(Abs(x[1])))

\* both values are kept as n / d with n and d small enough for the
\* arithmetic of the model
IsTiny(x) == ~IsWide(x) /\ Abs(x[1]) <= LimbBase /\ x[2] <= LimbBase

\* the sum of two finite non-zero values
WideAdd(x, y) ==
    LET Sum(s, N, e) == IF Len(N) = 0 THEN Zero ELSE Round(s, N, e, FALSE)
        Combine(s1, s2, H, l, e, c) ==
            Sum(IF s1 = s2 \/ c > 0 THEN s1 ELSE s2,
                IF s1 = s2 THEN BAdd(H, l)
                ELSE IF c > 0 THEN BSub(H, l)
                ELSE IF c < 0 THEN BSub(l, H)
                ELSE <<>>,
                e)
        Aligned(hi, lo, H) ==
            Combine(hi.s, lo.s, H, lo.m, lo.e, BCmp(H, lo.m))
        Ordered(hi, lo, larger) ==
            IF hi.e - lo.e > MantBits + 7 THEN larger
            ELSE Aligned(hi, lo, BShl(hi.m, hi.e - lo.e))
        Both(a, b) ==
            Ordered(IF a.e >= b.e THEN a ELSE b,
                    IF a.e >= b.e THEN b ELSE a,
                    IF a.e >= b.e THEN x ELSE y)
    IN  Both(Unpack(x), Unpack(y))

\* the product of two finite non-zero values
WideMul(x, y) ==
    LET Both(a, b) == Round(a.s * b.s, BMul(a.m, b.m), a.e + b.e, FALSE)
    IN  Both(Unpack(x), Unpack(y))

\* one digit of a long division: the q < 2^14 with q * b <= r < (q + 1) * b,
\* for b of 56 bits and r < 2^14 * b; the estimate from the leading digits
\* is at most 2 too large
DivDigit(r, b) ==
    LET Out(q) == [q |-> q, r |-> BSub(r, BMulSmall(b, q))]
        Less(q) == IF BCmp(BMulSmall(b, q), r) > 0 THEN q - 1 ELSE q
    IN  Out(Less(Less(Min2((Limb(r, 5) * LimbBase + Limb(r, 4)) \div b[4],
                           LimbBase - 1))))

\* the digits of a long division, the highest first, and whether a remainder
\* is left
RECURSIVE DivDigits(_, _, _)
DivDigits(rem, b, n) ==
    LET Join(d, rest) == [q |-> <<d.q>> \o rest.q, nonzero |-> rest.nonzero]
        Step(d) == Join(d, DivDigits(d.r, b, n - 1))
    IN  IF n = 0 THEN [q |-> <<>>, nonzero |-> Len(BTrim(rem)) # 0]
        ELSE Step(DivDigit(BTrim(<<0>> \o rem), b))

\* the quotient of two finite non-zero values: 57 bits of it and whether
\* more follow
WideDiv(x, y) ==
    LET Quot(s, e, first, d) ==
            Round(s,
                  BTrim(<<d.q[4], d.q[3], d.q[2], d.q[1],
                          IF first THEN 1 ELSE 0>>),
                  e, d.nonzero)
        Divide(s, e, A, B, first) ==
            Quot(s, e, first,
                 DivDigits(IF first THEN BSub(A, B) ELSE A, B, 4))
        Shifted(a, b, A, B) ==
            Divide(a.s * b.s, a.e - b.e - 4 * LimbBits, A, B, BCmp(A, B) >= 0)
        Both(a, b) == Shifted(a, b, BShl(a.m, 3), BShl(b.m, 3))
    IN  Both(Unpack(x), Unpack(y))

\* x < y for finite values
WideLt(x, y) ==
    LET Cmp(a, b) == IF a.e # b.e THEN (IF a.e < b.e THEN -1 ELSE 1)
                     ELSE BCmp(a.m, b.m)
        Less(sx, c) == IF sx > 0 THEN c < 0 ELSE c > 0
        Signs(sx, sy) ==
            IF sx # sy THEN sx < sy
            ELSE IF sx = 0 THEN FALSE
            ELSE Less(sx, Cmp(Unpack(x), Unpack(y)))
    IN  Signs(IF IsWide(x) THEN x[1] ELSE Sign(x),
              IF IsWide(y) THEN y[1] ELSE Sign(y))

RNeg(x) ==
    IF IsNaN(x) THEN NaN
    ELSE IF IsWide(x) THEN <<-x[1], x[2], x[3]>>
    ELSE <<-x[1], x[2]>>

RIsZero(x) == ~IsWide(x) /\ x[2] # 0 /\ x[1] = 0

\* x + y in f64: inf + (-inf) is NaN
RAdd(x, y) ==
    IF IsNaN(x) \/ IsNaN(y) THEN NaN
    ELSE IF IsFinite(x) /\ IsFinite(y)
    THEN IF RIsZero(x) THEN y
         ELSE IF RIsZero(y) THEN x
         ELSE IF IsTiny(x) /\ IsTiny(y)
         THEN Norm(x[1] * y[2] + y[1] * x[2], x[2] * y[2])
         ELSE WideAdd(x, y)
    ELSE IF IsFinite(x) THEN y
    ELSE IF IsFinite(y) THEN x
    ELSE IF x = y THEN x
    ELSE NaN

RSub(x, y) == RAdd(x, RNeg(y))

\* x * y in f64: 0 * inf is NaN
RMul(x, y) ==
    IF IsNaN(x) \/ IsNaN(y) THEN NaN
    ELSE IF IsFinite(x) /\ IsFinite(y)
    THEN IF RIsZero(x) \/ RIsZero(y) THEN Zero
         ELSE IF IsTiny(x) /\ IsTiny(y)
         THEN Norm(x[1] * y[1], x[2] * y[2])
         ELSE WideMul(x, y)
    ELSE IF RIsZero(x) \/ RIsZero(y) THEN NaN
    ELSE InfOf((IF IsWide(x) THEN x[1] ELSE Sign(x))
               * (IF IsWide(y) THEN y[1] ELSE Sign(y)))

\* x / y in f64: a non-zero value over 0.0 is an infinity of its sign, 0.0
\* over 0.0 and inf over inf are NaN
RDiv(x, y) ==
    IF IsNaN(x) \/ IsNaN(y) THEN NaN
    ELSE IF IsFinite(x) /\ IsFinite(y)
    THEN IF RIsZero(y)
         THEN IF RIsZero(x) THEN NaN
              ELSE InfOf(IF IsWide(x) THEN x[1] ELSE Sign(x))
         ELSE IF RIsZero(x) THEN Zero
         ELSE IF IsTiny(x) /\ IsTiny(y)
                 /\ IsPow2(Norm(x[1] * y[2], x[2] * y[1])[2])
         THEN Norm(x[1] * y[2], x[2] * y[1])
         ELSE WideDiv(x, y)
    ELSE IF IsFinite(x) THEN Zero
    ELSE IF IsFinite(y)
    THEN InfOf(IF (IF IsWide(y) THEN y[1] ELSE Sign(y)) < 0
               THEN -Sign(x) ELSE Sign(x))
    ELSE NaN

RAbs(x) ==
    IF IsNaN(x) THEN NaN
    ELSE IF IsWide(x) THEN <<1, x[2], x[3]>>
    ELSE IF IsFinite(x) THEN <<Abs(x[1]), x[2]>>
    ELSE PosInf

\* comparisons of f64: every comparison with NaN is false
RLt(x, y) ==
    /\ ~IsNaN(x)
    /\ ~IsNaN(y)
    /\ IF IsFinite(x) /\ IsFinite(y)
       THEN IF IsTiny(x) /\ IsTiny(y) THEN x[1] * y[2] < y[1] * x[2]
            ELSE WideLt(x, y)
       ELSE x # y /\ (x = NegInf \/ y = PosInf)
REq(x, y) == ~IsNaN(x) /\ ~IsNaN(y) /\ x = y
RLe(x, y) == RLt(x, y) \/ REq(x, y)
RGt(x, y) == RLt(y, x)
RGe(x, y) == RLe(y, x)

\* functions over 0..n-1 stand for Vec
VLen(v) == Cardinality(DOMAIN v)
EmptyVec == [i \in {} |-> Zero]

\* v[0] + ... + v[n-1], accumulated left to right as the loops do
RECURSIVE RSum(_, _)
RSum(n, v) == IF n = 0 THEN Zero ELSE RAdd(RSum(n - 1, v), v[n - 1])

-----------------------------------------------------------------------------
(* problem.rs: data model                                                  *)

Continuous == [kind |-> "Continuous", min |-> 0, max |-> 0]
Integer(lo, hi) == [kind |-> "Integer", min |-> lo, max |-> hi]

Variable(i, k) == [index |-> i, kind |-> k]

NoObjective == [set |-> FALSE, expr |-> EmptyVec, kind |-> "None"]
Objective(e, k) == [set |-> TRUE, expr |-> e, kind |-> k]

Constraint(e, k, c) == [expr |-> e, kind |-> k, constant |-> c]

ConstraintKinds == {"LessThanOrEqualTo", "EqualTo", "GreaterThanOrEqualTo"}
ObjectiveKinds == {"Minimize", "Maximize"}

\* an Expression is its HashMap<u32, f64>: a function from the keys it
\* holds to their coefficients
\* Expression::default(): no key
ExpressionDefault == EmptyVec

\* Expression::add_coeffs(coeffs): inserts the keys 0..len-1
add_coeffs(e, coeffs) ==
    [k \in DOMAIN e \cup 0..(Len(coeffs) - 1) |->
        IF k < Len(coeffs) THEN coeffs[k + 1] ELSE e[k]]

\* Expression::new(coeffs): the keys 0..len-1
ExpressionNew(coeffs) == [k \in 0..(Len(coeffs) - 1) |-> coeffs[k + 1]]

\* Expression::add_term(coeff, variable): inserts the key variable.index
add_term(e, coeff, variable) ==
    [k \in DOMAIN e \cup {variable.index} |->
        IF k = variable.index THEN coeff ELSE e[k]]

\* Expression::get: 0.0 for a missing index
ExprGet(e, i) == IF i \in DOMAIN e THEN e[i] ELSE Zero

\* coeffs.len(): the number of keys
ExprLen(e) == Cardinality(DOMAIN e)

num_variables == Len(variables)
num_constraints == Len(constraints)


-----------------------------------------------------------------------------
(* Matrix: a row-major buffer of width * height cells and a window         *)

NoMatrix ==
    [width |-> 0, height |-> 0, start_x |-> 0, start_y |-> 0, end_x |-> 0,
     end_y |-> 0, coeffs |-> EmptyVec]

\* the guard of Matrix::new
MatrixNewPanics(width, height, coeffs) ==
    \/ width * height # VLen(coeffs)
    \/ width <= 2
    \/ height <= 2

MatrixNew(width, height, coeffs) ==
    [width |-> width, height |-> height, start_x |-> 0, start_y |-> 0,
     end_x |-> width, end_y |-> height, coeffs |-> coeffs]

\* Matrix::new_gaussian_elimination(width, height, variables, coeffs)
MatrixNewGaussianElimination(width, height, nvars, coeffs) ==
    [width |-> width, height |-> height, start_x |-> 0, start_y |-> 0,
     end_x |-> width, end_y |-> height, coeffs |-> coeffs]

first_row(m) == m.start_y
first_col(m) == m.start_x
last_row(m) == m.end_y - 1
last_col(m) == m.end_x - 1

rows(m) == m.start_y .. (m.end_y - 1)
cols(m) == m.start_x .. (m.end_x - 1)
rows_from(m, r) == r .. (m.end_y - 1)
cols_from(m, c) == c .. (m.end_x - 1)
cols_range(m, a, b) == a .. (b - 1)

RowIsValid(m, r) == r < m.end_y
ColIsValid(m, c) == c < m.end_x

value(m, r, c) == m.coeffs[c + r * m.width]

set_value(m, r, c, v) == [m EXCEPT !.coeffs[c + r * m.width] = v]

set_value_raw(m, r, c, v) == [m EXCEPT !.coeffs[c + r * m.width] = v]

\* the cell (row, col) of a buffer offset
RowOf(m, k) == k \div m.width
ColOf(m, k) == k % m.width

swap_rows(m, r1, r2) ==
    [m EXCEPT !.coeffs =
        [k \in DOMAIN m.coeffs |->
            IF ColOf(m, k) \in cols(m) /\ RowOf(m, k) = r1
            THEN value(m, r2, ColOf(m, k))
            ELSE IF ColOf(m, k) \in cols(m) /\ RowOf(m, k) = r2
            THEN value(m, r1, ColOf(m, k))
            ELSE m.coeffs[k]]]

multiply_row(m, r, k) ==
    [m EXCEPT !.coeffs =
        [o \in DOMAIN m.coeffs |->
            IF ColOf(m, o) \in cols(m) /\ RowOf(m, o) = r
            THEN RMul(m.coeffs[o], k)
            ELSE m.coeffs[o]]]

\* dest <- dest + k * src
add_row(m, src, dest, k) ==
    [m EXCEPT !.coeffs =
        [o \in DOMAIN m.coeffs |->
            IF ColOf(m, o) \in cols(m) /\ RowOf(m, o) = dest
            THEN RAdd(m.coeffs[o], RMul(value(m, src, ColOf(m, o)), k))
            ELSE m.coeffs[o]]]

has_zero_row(m) ==
    \E r \in rows(m) : \A c \in cols(m) : RIsZero(value(m, r, c))

sub(m, sx, sy) ==
    [m EXCEPT !.start_x = m.start_x + sx, !.start_y = m.start_y + sy]


-----------------------------------------------------------------------------
(* What a call returns                                                     *)

ErrorKinds ==
    {"InvalidConstraint", "InvalidObjective", "Infeasible", "Underspecified",
     "UnableToSolve"}

\* Ok(()) of a builder call
Unit ==
    [kind |-> "Unit", err |-> "", coeffs |-> EmptyVec, has_objective |-> FALSE,
     objective |-> Zero]

\* a solve that has not returned yet
Pending ==
    [kind |-> "Pending", err |-> "", coeffs |-> EmptyVec,
     has_objective |-> FALSE, objective |-> Zero]

\* Err(SolverError) of the given kind
Err(k) ==
    [kind |-> "Err", err |-> k, coeffs |-> EmptyVec, has_objective |-> FALSE,
     objective |-> Zero]

\* a panic: the process is terminated
Panic ==
    [kind |-> "Panic", err |-> "", coeffs |-> EmptyVec,
     has_objective |-> FALSE, objective |-> Zero]

\* Ok(Solution::new(coeffs, None))
SolutionNone(coeffs) ==
    [kind |-> "Ok", err |-> "", coeffs |-> coeffs, has_objective |-> FALSE,
     objective |-> Zero]

\* Ok(Solution::new(coeffs, Some(objective)))
SolutionSome(coeffs, obj) ==
    [kind |-> "Ok", err |-> "", coeffs |-> coeffs, has_objective |-> TRUE,
     objective |-> obj]

\* the Problem as the engines receive it
Problem == [variables |-> variables, constraints |-> constraints,
            objective |-> objective]

-----------------------------------------------------------------------------
(* gaussian_elimination.rs                                                 *)

NoGauss == [pivot_row |-> 0, pivot_col |-> 0, steps |-> 0]

\* the coefficient buffer setup_matrix fills: row i holds constraint i
\* the buffer after the loop over the constraints: row by row, every key
\* col of the expression writes the cell col + row * width, then the constant
\* writes the last cell of the row; a cell keeps its last write
GaussianCoeffs(p, width, height) ==
    [o \in 0..(width * height - 1) |->
        LET Written(row) ==
                IF o = width - 1 + row * width
                THEN p.constraints[row + 1].constant
                ELSE p.constraints[row + 1].expr[o - row * width]
            Last(writers) ==
                IF writers = {} THEN Zero
                ELSE Written(CHOOSE r \in writers : \A q \in writers : q <= r)
        IN  Last({row \in 0..(height - 1) :
                    \/ o = width - 1 + row * width
                    \/ (o - row * width) \in DOMAIN p.constraints[row + 1].expr})]

\* a key of the constraint of this row addresses a cell past the buffer
GaussianWritePanics(p, row, width, height) ==
    \E col \in DOMAIN p.constraints[row + 1].expr :
        col + row * width >= width * height

\* setup_matrix indexes past the buffer before it returns an error: the
\* objective and the counts are accepted and a row writes out of bounds
\* with no inequality at or before it
GaussianSetupPanics(p) ==
    /\ ~p.objective.set
    /\ Len(p.constraints) = Len(p.variables)
    /\ \E row \in 0..(Len(p.constraints) - 1) :
            /\ GaussianWritePanics(p, row, Len(p.variables) + 1,
                                   Len(p.constraints))
            /\ \A q \in 0..row : p.constraints[q + 1].kind = "EqualTo"

\* setup_matrix: the error it returns, or "" when it builds the matrix
GaussianSetupError(p) ==
    IF p.objective.set THEN "InvalidObjective"
    ELSE IF Len(p.constraints) # Len(p.variables) THEN "InvalidConstraint"
    ELSE IF \E i \in 1..Len(p.constraints) :
                p.constraints[i].kind # "EqualTo"
         THEN "InvalidConstraint"
    ELSE ""

GaussianSetupMatrix(p) ==
    LET height == Len(p.constraints)
        width == Len(p.variables) + 1
    IN  MatrixNewGaussianElimination(width, height, Len(p.variables),
                                     GaussianCoeffs(p, width, height))

RECURSIVE FindPivotMaxFrom(_, _, _, _, _)
FindPivotMaxFrom(m, row, pivot_col, max_value, pivot_max) ==
    IF row > last_row(m) THEN pivot_max
    ELSE LET cur_value == RAbs(value(m, row, pivot_col))
         IN  IF RGt(cur_value, max_value)
             THEN FindPivotMaxFrom(m, row + 1, pivot_col, cur_value, row)
             ELSE FindPivotMaxFrom(m, row + 1, pivot_col, max_value, pivot_max)

find_pivot_max(m, cur_pivot_row, pivot_col) ==
    FindPivotMaxFrom(m, cur_pivot_row, pivot_col, Zero, cur_pivot_row)

\* the rows below pivot_row after the elimination on (pivot_row, pivot_col)
GaussEliminate(m, pivot_row, pivot_col) ==
    [m EXCEPT !.coeffs =
        [o \in DOMAIN m.coeffs |->
            LET row == RowOf(m, o)
                col == ColOf(m, o)
                coeff == RDiv(value(m, row, pivot_col),
                              value(m, pivot_row, pivot_col))
            IN  IF row \in rows_from(m, pivot_row + 1) /\ col = pivot_col
                THEN Zero
                ELSE IF row \in rows_from(m, pivot_row + 1)
                        /\ col \in cols_from(m, pivot_col + 1)
                THEN RSub(m.coeffs[o], RMul(value(m, pivot_row, col), coeff))
                ELSE m.coeffs[o]]]

\* mutation of GaussReduceStep: a degenerate column advances the pivot row too
GaussReduceStepBoth(m, g) ==
    LET pivot_max == find_pivot_max(m, g.pivot_row, g.pivot_col)
    IN  IF RIsZero(value(m, pivot_max, g.pivot_col))
        THEN [matrix |-> m,
              gauss |-> [pivot_row |-> g.pivot_row + 1,
                         pivot_col |-> g.pivot_col + 1,
                         steps |-> g.steps + 1]]
        ELSE [matrix |-> GaussEliminate(swap_rows(m, g.pivot_row, pivot_max),
                                        g.pivot_row, g.pivot_col),
              gauss |-> [pivot_row |-> g.pivot_row + 1,
                         pivot_col |-> g.pivot_col + 1,
                         steps |-> g.steps + 1]]

\* one iteration of the reduction loop, before its zero-row test
GaussReduceStep(m, g) ==
    LET pivot_max == find_pivot_max(m, g.pivot_row, g.pivot_col)
    IN  IF RIsZero(value(m, pivot_max, g.pivot_col))
        THEN [matrix |-> m,
              gauss |-> [g EXCEPT !.pivot_col = g.pivot_col + 1,
                                  !.steps = g.steps + 1]]
        ELSE [matrix |-> GaussEliminate(swap_rows(m, g.pivot_row, pivot_max),
                                        g.pivot_row, g.pivot_col),
              gauss |-> [pivot_row |-> g.pivot_row + 1,
                         pivot_col |-> g.pivot_col + 1,
                         steps |-> g.steps + 1]]

GaussLoopCondition(m, g) ==
    RowIsValid(m, g.pivot_row) /\ ColIsValid(m, g.pivot_col)

RECURSIVE BackAcc(_, _, _, _, _)
BackAcc(m, row, col, coeff, coeffs) ==
    IF col >= last_col(m) THEN coeff
    ELSE BackAcc(m, row, col + 1,
                 RSub(coeff, RMul(value(m, row, col), coeffs[col])), coeffs)

RECURSIVE BackSubstitute(_, _, _)
BackSubstitute(m, row, coeffs) ==
    IF row < first_row(m) THEN coeffs
    ELSE LET coeff == BackAcc(m, row, row + 1, value(m, row, last_col(m)),
                              coeffs)
         IN  BackSubstitute(m, row - 1,
                 [coeffs EXCEPT ![row] = RDiv(coeff, value(m, row, row))])

GaussBackSubstitution(m) ==
    BackSubstitute(m, last_row(m), [i \in 0..(m.height - 1) |-> Zero])


-----------------------------------------------------------------------------
(* simplex.rs                                                              *)

\* 1e-6 as f64
OPTIMALITY_TOL == <<1, -72, <<11661, 727, 12154, 1073>>>>

NoSimplex ==
    [iteration |-> 0, num_artificial |-> 0, phase |-> 0, phase1 |-> Pending]

\* the buffer setup_matrix fills: the constraint of row r writes the cell
\* 2 + key + r * width for every key of its expression, then its constant in
\* the last cell of the row; then coeffs[0] = 1.0, the objective writes the
\* cells 2 + key + width, and coeffs[1 + width] = 1.0. A cell keeps its last
\* write.
SimplexCoeffs(p, width, height) ==
    [o \in 0..(width * height - 1) |->
        LET Neg(c) == IF RLt(c.constant, Zero) THEN R(-1) ELSE One
            Written(c, row) ==
                IF o = width - 1 + row * width
                THEN RMul(c.constant, Neg(c))
                ELSE RMul(c.expr[o - 2 - row * width], Neg(c))
            Row1(i) == Written(p.constraints[i], i + 1)
            Last(writers) ==
                IF writers = {} THEN Zero
                ELSE Row1(CHOOSE i \in writers : \A q \in writers : q <= i)
        IN  IF p.objective.set /\ o = 1 + width THEN One
            ELSE IF p.objective.set
                    /\ (o - 2 - width) \in DOMAIN p.objective.expr
            THEN RMul(p.objective.expr[o - 2 - width], R(-1))
            ELSE IF o = 0 THEN One
            ELSE Last({i \in 1..Len(p.constraints) :
                        \/ o = width - 1 + (i + 1) * width
                        \/ (o - 2 - (i + 1) * width)
                                \in DOMAIN p.constraints[i].expr})]

\* a coefficient of a constraint or of the objective written past the end
\* of the buffer
SimplexCoeffsPanics(p, width, height) ==
    \/ \E i \in 1..Len(p.constraints) : \E key \in DOMAIN p.constraints[i].expr :
            2 + key + (i + 1) * width >= width * height
    \/ /\ p.objective.set
       /\ \E key \in DOMAIN p.objective.expr :
            2 + key + width >= width * height

\* the loop over the constraints that writes slack and artificial columns
RECURSIVE SimplexSlackLoop(_, _, _, _)
SimplexSlackLoop(m, p, i, num_artificial) ==
    IF i >= Len(p.constraints) THEN [matrix |-> m, num_artificial |-> num_artificial]
    ELSE LET kind == p.constraints[i + 1].kind
             slack_start_row == Len(p.variables) + 2
             val == IF kind = "GreaterThanOrEqualTo" THEN R(-1) ELSE One
             artificial == (kind = "EqualTo")
             m1 == set_value_raw(m, i + 2, i + slack_start_row, val)
         IN  IF artificial
             THEN SimplexSlackLoop(
                      add_row(set_value_raw(m1, 0, i + slack_start_row, R(-1)),
                              i + 2, 0, One),
                      p, i + 1, num_artificial + 1)
             ELSE SimplexSlackLoop(m1, p, i + 1, num_artificial)

SimplexWidth(p) == Len(p.variables) + Len(p.constraints) + 3
SimplexHeight(p) == Len(p.constraints) + 2

SimplexSetupPanics(p) ==
    \/ SimplexCoeffsPanics(p, SimplexWidth(p), SimplexHeight(p))
    \/ MatrixNewPanics(SimplexWidth(p), SimplexHeight(p),
                       SimplexCoeffs(p, SimplexWidth(p), SimplexHeight(p)))

SimplexSetupMatrix(p) ==
    SimplexSlackLoop(
        MatrixNew(SimplexWidth(p), SimplexHeight(p),
                  SimplexCoeffs(p, SimplexWidth(p), SimplexHeight(p))),
        p, 0, 0)

NoCol == -1
NoRow == -1

RECURSIVE SelectPivotColumnFrom(_, _, _, _, _)
SelectPivotColumnFrom(m, objective_kind, col, best_val, best_col) ==
    IF col >= last_col(m) THEN best_col
    ELSE LET v == value(m, first_row(m), col)
             better == IF objective_kind = "Minimize" THEN RGt(v, best_val)
                       ELSE RLt(v, best_val)
         IN  IF better
             THEN SelectPivotColumnFrom(m, objective_kind, col + 1, v, col)
             ELSE SelectPivotColumnFrom(m, objective_kind, col + 1, best_val,
                                        best_col)

\* mutation of select_pivot_column: the scan starts at the marker column
select_pivot_column_from_first(m, objective_kind) ==
    SelectPivotColumnFrom(m, objective_kind, first_col(m), Zero, NoCol)

select_pivot_column(m, objective_kind) ==
    SelectPivotColumnFrom(m, objective_kind, first_col(m) + 1, Zero, NoCol)

\* min starts at f64::MAX: has_min is FALSE until a ratio has been kept
RECURSIVE SelectPivotRowFrom(_, _, _, _, _, _)
SelectPivotRowFrom(m, pivot_col, row, has_min, min, min_row) ==
    IF row > last_row(m) THEN min_row
    ELSE LET v == value(m, row, pivot_col)
             min_ratio_test == RDiv(value(m, row, last_col(m)), v)
         IN  IF RLe(v, Zero)
             THEN SelectPivotRowFrom(m, pivot_col, row + 1, has_min, min, min_row)
             ELSE IF RLt(min_ratio_test, Zero)
             THEN SelectPivotRowFrom(m, pivot_col, row + 1, has_min, min, min_row)
             ELSE IF IF has_min THEN RLt(min_ratio_test, min)
                     ELSE IsFinite(min_ratio_test)
             THEN SelectPivotRowFrom(m, pivot_col, row + 1, TRUE,
                                     min_ratio_test, row)
             ELSE SelectPivotRowFrom(m, pivot_col, row + 1, has_min, min, min_row)

\* mutation of select_pivot_row: no row is skipped
select_pivot_row_from_first(m, pivot_col, num_rows_skip) ==
    SelectPivotRowFrom(m, pivot_col, first_row(m), FALSE, Zero, NoRow)

select_pivot_row(m, pivot_col, num_rows_skip) ==
    SelectPivotRowFrom(m, pivot_col, first_row(m) + num_rows_skip, FALSE, Zero,
                       NoRow)

RECURSIVE SimplexPivotRows(_, _, _, _)
SimplexPivotRows(m, row, pivot_row, pivot_col) ==
    IF row > last_row(m) THEN m
    ELSE IF row = pivot_row
    THEN SimplexPivotRows(m, row + 1, pivot_row, pivot_col)
    ELSE SimplexPivotRows(
             add_row(m, pivot_row, row, RMul(R(-1), value(m, row, pivot_col))),
             row + 1, pivot_row, pivot_col)

simplex_pivot(m, pivot_row, pivot_col) ==
    LET pivot_recip == RDiv(One, value(m, pivot_row, pivot_col))
    IN  SimplexPivotRows(multiply_row(m, pivot_row, pivot_recip), first_row(m),
                         pivot_row, pivot_col)

\* the rows of the window with a non-zero entry in col
NonZeroRows(m, col) == {r \in rows(m) : ~RIsZero(value(m, r, col))}

produce_solution(m, nvars) ==
    SolutionSome(
        [i \in 0..(nvars - 1) |->
            LET col == first_col(m) + 1 + i
                nz == NonZeroRows(m, col)
            IN  IF Cardinality(nz) = 1
                THEN value(m, CHOOSE r \in nz : TRUE, last_col(m))
                ELSE Zero],
        value(m, first_row(m), last_col(m)))

\* mutation of Phase1Infeasible: the comparison is turned round
Phase1InfeasibleFlipped(phase1) ==
    RLt(RAbs(phase1.objective), OPTIMALITY_TOL)

\* the test on the Phase I solution: solution.abs() > OPTIMALITY_TOL
Phase1Infeasible(phase1) ==
    phase1.has_objective /\ RGt(RAbs(phase1.objective), OPTIMALITY_TOL)

\* mutation of SimplexCapReached: one pivot more before the loop gives up
SimplexCapReachedLate(m, iteration) == iteration > m.width * m.height

\* the test at the top of the loop of simplex()
SimplexCapReached(m, iteration) == iteration >= m.width * m.height

\* mutation of Phase2Matrix: the columns are zeroed in every row of the
\* storage, the hidden row 0 included
Phase2MatrixAllRows(m, num_artificial) ==
    LET w == sub(m, 1, 1)
    IN  [w EXCEPT !.coeffs =
            [o \in DOMAIN w.coeffs |->
                IF ColOf(w, o) \in cols_range(w, last_col(w) - num_artificial,
                                              last_col(w))
                THEN Zero
                ELSE w.coeffs[o]]]

\* the Phase II transition: narrow the window, zero the columns
\* last_col - num_artificial .. last_col - 1 in every row of the window
Phase2Matrix(m, num_artificial) ==
    LET w == sub(m, 1, 1)
    IN  [w EXCEPT !.coeffs =
            [o \in DOMAIN w.coeffs |->
                IF RowOf(w, o) \in rows(w)
                   /\ ColOf(w, o) \in cols_range(w, last_col(w) - num_artificial,
                                                last_col(w))
                THEN Zero
                ELSE w.coeffs[o]]]


-----------------------------------------------------------------------------
(* brute.rs                                                                *)

\* std::f64::MAX and std::f64::MIN: finite, beyond every value the model
\* computes; kept symbolic
F64_MAX == <<1, 0>>
F64_MIN == <<-1, 0>>

\* std::f32::EPSILON as f64 = 2^-23
BruteTol == <<1, 8388608>>

NoBrute ==
    [vars |-> EmptyVec, best_obj |-> Zero, initial_best |-> Zero,
     solution |-> EmptyVec, cur_index |-> -1, val |-> 0, checks |-> 0,
     leaf_checks |-> 0]

\* bounds: Continuous is Bound { min: 0, max: 0 }
BruteBound(p, i) ==
    IF p.variables[i + 1].kind.kind = "Continuous"
    THEN [min |-> 0, max |-> 0]
    ELSE [min |-> p.variables[i + 1].kind.min,
          max |-> p.variables[i + 1].kind.max]

\* the coefficient vector brute::solve builds from an expression
BruteCoeffs(p, e) == [i \in 0..(Len(p.variables) - 1) |-> ExprGet(e, i)]

get_constraint_value(vs, coeffs) ==
    RSum(VLen(vs), [i \in DOMAIN vs |-> RMul(R(vs[i]), coeffs[i])])

MeetsConstraint(p, vs, c) ==
    LET computed == get_constraint_value(vs, BruteCoeffs(p, c.expr))
    IN  CASE c.kind = "GreaterThanOrEqualTo" ->
                RGt(computed, RSub(c.constant, BruteTol))
          [] c.kind = "EqualTo" ->
                RLt(RAbs(RSub(computed, c.constant)), BruteTol)
          [] c.kind = "LessThanOrEqualTo" ->
                RLt(computed, RAdd(c.constant, BruteTol))

meets_constraints(p, vs) ==
    \A k \in 1..Len(p.constraints) : MeetsConstraint(p, vs, p.constraints[k])

\* test < *best_value: below f64::MAX is every value but +inf and NaN, below
\* f64::MIN is -inf alone
BruteLess(test, best) ==
    IF best = F64_MAX THEN ~IsNaN(test) /\ test # PosInf
    ELSE IF best = F64_MIN THEN test = NegInf
    ELSE RLt(test, best)

\* test > *best_value: above f64::MIN is every value but -inf and NaN, above
\* f64::MAX is +inf alone
BruteGreater(test, best) ==
    IF best = F64_MIN THEN ~IsNaN(test) /\ test # NegInf
    ELSE IF best = F64_MAX THEN test = PosInf
    ELSE RGt(test, best)

BruteIsBest(kind, test, best) ==
    IF kind = "Minimize" THEN BruteLess(test, best) ELSE BruteGreater(test, best)

BruteDone == [cur_index |-> -1, val |-> 0]

\* the loop at level l has finished the body for vs[l]: the next iteration
\* of that loop, or of the nearest enclosing loop that has one
RECURSIVE BruteAdvance(_, _, _)
BruteAdvance(p, vs, l) ==
    IF vs[l] < BruteBound(p, l).max THEN [cur_index |-> l, val |-> vs[l] + 1]
    ELSE IF l = 0 THEN BruteDone
    ELSE BruteAdvance(p, vs, l - 1)

\* the loop iteration that runs after the checks of the iteration at level l
BruteNextCursor(p, vs, l) ==
    IF l < Len(p.variables) - 1
    THEN IF BruteBound(p, l + 1).min <= BruteBound(p, l + 1).max
         THEN [cur_index |-> l + 1, val |-> BruteBound(p, l + 1).min]
         ELSE BruteAdvance(p, vs, l)
    ELSE BruteAdvance(p, vs, l)

\* one iteration of the loop of check_combinations at (cur_index, val)
check_combinations(p, b) ==
    LET vs == [b.vars EXCEPT ![b.cur_index] = b.val]
        met == meets_constraints(p, vs)
        test == get_constraint_value(vs, BruteCoeffs(p, p.objective.expr))
        best == met /\ BruteIsBest(p.objective.kind, test, b.best_obj)
        next == BruteNextCursor(p, vs, b.cur_index)
    IN  [b EXCEPT !.vars = vs,
                  !.best_obj = IF best THEN test ELSE @,
                  !.solution = IF best THEN vs ELSE @,
                  !.cur_index = next.cur_index,
                  !.val = next.val,
                  !.checks = @ + 1,
                  !.leaf_checks =
                      IF b.cur_index = Len(p.variables) - 1 THEN @ + 1 ELSE @]

\* brute::solve up to the first call of check_combinations
BruteStart(p) ==
    LET best == IF p.objective.kind = "Maximize" THEN F64_MIN ELSE F64_MAX
        b0 == BruteBound(p, 0)
    IN  [vars |-> [i \in 0..(Len(p.variables) - 1) |-> BruteBound(p, i).min],
         best_obj |-> best,
         initial_best |-> best,
         solution |-> [i \in 0..(Len(p.variables) - 1) |-> 0],
         cur_index |-> IF b0.min <= b0.max THEN 0 ELSE -1,
         val |-> IF b0.min <= b0.max THEN b0.min ELSE 0,
         checks |-> 0,
         leaf_checks |-> 0]

\* brute::solve after check_combinations has returned
BruteResult(b) ==
    IF b.initial_best = b.best_obj THEN Err("Infeasible")
    ELSE SolutionSome([i \in DOMAIN b.solution |-> R(b.solution[i])], b.best_obj)


-----------------------------------------------------------------------------
(* problem.rs: Problem::solve                                              *)

\* mutation of SolveVarKind: var_kind is assigned from the last variable only
SolveVarKindLastOnly(p) ==
    IF Len(p.variables) > 0
       /\ p.variables[Len(p.variables)].kind.kind = "Integer"
    THEN "Integer"
    ELSE "Continuous"

\* var_kind after the loop over the variables
SolveVarKind(p) ==
    IF \E i \in 1..Len(p.variables) : p.variables[i].kind.kind = "Integer"
    THEN "Integer"
    ELSE "Continuous"

\* the arm of the match that solve takes
Dispatch(p) ==
    IF ~p.objective.set
    THEN IF SolveVarKind(p) = "Continuous" THEN "gaussian" ELSE "none"
    ELSE IF SolveVarKind(p) = "Continuous" THEN "simplex" ELSE "brute"

-----------------------------------------------------------------------------
(* The engines as steps of a running solve                                 *)

Finish(r) ==
    /\ pc' = "done"
    /\ result' = r

\* gaussian_elimination::solve: setup_matrix, then gaussian_elimination
EnterGaussian(v) ==
    /\ via' = v
    /\ engine' = "gaussian"
    /\ UNCHANGED <<problemVars, previous, splx, brute>>
    /\ IF GaussianSetupPanics(Problem)
       THEN /\ Finish(Panic)
            /\ UNCHANGED <<matrix, gauss>>
       ELSE IF GaussianSetupError(Problem) # ""
       THEN /\ Finish(Err(GaussianSetupError(Problem)))
            /\ UNCHANGED <<matrix, gauss>>
       ELSE /\ matrix' = GaussianSetupMatrix(Problem)
            /\ gauss' = [pivot_row |-> first_row(matrix'),
                         pivot_col |-> first_col(matrix'), steps |-> 0]
            /\ pc' = "reduce"
            /\ result' = Pending

\* one iteration of the reduction loop
GaussStep ==
    /\ pc = "reduce"
    /\ GaussLoopCondition(matrix, gauss)
    /\ LET s == GaussReduceStep(matrix, gauss)
       IN  /\ matrix' = s.matrix
           /\ gauss' = s.gauss
           /\ IF has_zero_row(s.matrix)
              THEN Finish(Err("Underspecified"))
              ELSE UNCHANGED <<pc, result>>
    /\ UNCHANGED <<problemVars, previous, via, engine, splx, brute>>

\* the loop has ended: back substitution
GaussBack ==
    /\ pc = "reduce"
    /\ ~GaussLoopCondition(matrix, gauss)
    /\ Finish(SolutionNone(GaussBackSubstitution(matrix)))
    /\ UNCHANGED <<problemVars, previous, via, engine, matrix, gauss, splx, brute>>

\* simplex::solve up to the first call of simplex()
EnterSimplex(v) ==
    /\ via' = v
    /\ engine' = "simplex"
    /\ UNCHANGED <<problemVars, previous, gauss, brute>>
    /\ IF ~objective.set
       THEN /\ Finish(Err("InvalidObjective"))
            /\ UNCHANGED <<matrix, splx>>
       ELSE IF SimplexSetupPanics(Problem)
       THEN /\ Finish(Panic)
            /\ UNCHANGED <<matrix, splx>>
       ELSE /\ matrix' = SimplexSetupMatrix(Problem).matrix
            /\ splx' = [iteration |-> 0,
                        num_artificial |->
                            SimplexSetupMatrix(Problem).num_artificial,
                        phase |-> 1, phase1 |-> Pending]
            /\ pc' = "simplex"
            /\ result' = Pending

\* one iteration of the loop of simplex(), in either phase
SimplexIterate ==
    /\ pc = "simplex"
    /\ UNCHANGED <<problemVars, previous, via, engine, gauss, brute>>
    /\ LET objective_rows == IF splx.phase = 1 THEN 2 ELSE 1
           objective_kind == IF splx.phase = 1 THEN "Minimize"
                             ELSE objective.kind
           pivot_col == select_pivot_column(matrix, objective_kind)
           pivot_row == select_pivot_row(matrix, pivot_col, objective_rows)
       IN  IF SimplexCapReached(matrix, splx.iteration)
           THEN /\ Finish(Err("UnableToSolve"))
                /\ UNCHANGED <<matrix, splx>>
           ELSE IF pivot_col = NoCol
           THEN IF splx.phase = 1
                THEN /\ splx' = [splx EXCEPT !.phase1 =
                                    produce_solution(matrix, num_variables)]
                     /\ pc' = "transition"
                     /\ UNCHANGED <<matrix, result>>
                ELSE /\ Finish(produce_solution(matrix, num_variables))
                     /\ UNCHANGED <<matrix, splx>>
           ELSE IF pivot_row = NoRow
           THEN /\ Finish(Err("Infeasible"))
                /\ UNCHANGED <<matrix, splx>>
           ELSE /\ matrix' = simplex_pivot(matrix, pivot_row, pivot_col)
                /\ splx' = [splx EXCEPT !.iteration = @ + 1]
                /\ UNCHANGED <<pc, result>>

\* simplex::solve between the two calls of simplex()
Phase2Transition ==
    /\ pc = "transition"
    /\ UNCHANGED <<problemVars, previous, via, engine, gauss, brute>>
    /\ IF Phase1Infeasible(splx.phase1)
       THEN /\ Finish(Err("Infeasible"))
            /\ UNCHANGED <<matrix, splx>>
       ELSE /\ matrix' = Phase2Matrix(matrix, splx.num_artificial)
            /\ splx' = [splx EXCEPT !.iteration = 0, !.phase = 2]
            /\ pc' = "simplex"
            /\ UNCHANGED result

\* brute::solve with no objective returns the error of another kind
BruteSetupErrorUnable(p) ==
    IF ~p.objective.set THEN "UnableToSolve" ELSE ""

\* brute::solve: the error of a problem without an objective, "" if none
BruteSetupError(p) ==
    IF ~p.objective.set THEN "InvalidObjective" ELSE ""

\* brute::solve up to the first call of check_combinations
EnterBrute(v) ==
    /\ via' = v
    /\ engine' = "brute"
    /\ UNCHANGED <<problemVars, previous, matrix, gauss, splx>>
    /\ IF BruteSetupError(Problem) # ""
       THEN /\ Finish(Err(BruteSetupError(Problem)))
            /\ UNCHANGED brute
       ELSE IF num_variables = 0
       THEN /\ Finish(Panic)
            /\ UNCHANGED brute
       ELSE /\ brute' = BruteStart(Problem)
            /\ pc' = "brute"
            /\ result' = Pending

\* one iteration of a loop of check_combinations
BruteStep ==
    /\ pc = "brute"
    /\ brute.cur_index >= 0
    /\ brute' = check_combinations(Problem, brute)
    /\ UNCHANGED <<problemVars, previous, pc, via, engine, matrix, gauss, splx, result>>

\* check_combinations has returned
BruteFinish ==
    /\ pc = "brute"
    /\ brute.cur_index < 0
    /\ Finish(BruteResult(brute))
    /\ UNCHANGED <<problemVars, previous, via, engine, matrix, gauss, splx, brute>>

\* Problem::solve
Solve ==
    /\ pc = "idle"
    /\ IF Dispatch(Problem) = "gaussian" THEN EnterGaussian("solve")
       ELSE IF Dispatch(Problem) = "simplex" THEN EnterSimplex("solve")
       ELSE IF Dispatch(Problem) = "brute" THEN EnterBrute("solve")
       ELSE /\ via' = "solve"
            /\ engine' = "none"
            /\ Finish(Err("UnableToSolve"))
            /\ UNCHANGED <<problemVars, previous, matrix, gauss, splx, brute>>

\* the engines called directly
CallGaussian == pc = "idle" /\ EnterGaussian("direct")
CallSimplex == pc = "idle" /\ EnterSimplex("direct")
CallBrute == pc = "idle" /\ EnterBrute("direct")

-----------------------------------------------------------------------------
(* problem.rs: the builder                                                 *)

BuilderCoeffs == {R(k) : k \in 0..MaxCoeff}
BuilderConsts == {R(k) : k \in 0..MaxConst}
BuilderKinds ==
    {Continuous} \cup {Integer(lo, hi) : lo \in 0..MaxInt, hi \in 0..MaxInt}
BuilderExprs(w) == [1..w -> BuilderCoeffs]

\* Expression::default() followed by add_term(coeff, v) for a variable v of
\* every index in keys (the variables of any Problem: add_term reads the
\* index alone)
RECURSIVE AddTerms(_, _, _)
AddTerms(e, coeff, keys) ==
    IF keys = {} THEN e
    ELSE LET k == CHOOSE i \in keys : \A j \in keys : i <= j
         IN  AddTerms(add_term(e, coeff, Variable(k, Continuous)), coeff,
                      keys \ {k})

\* Expression::default() and the expressions of one term over the indices
\* 0..MaxKey
BuilderTermExprs ==
    {ExpressionDefault}
    \cup {add_term(ExpressionDefault, One, Variable(k, Continuous)) :
            k \in 0..MaxKey}

RECURSIVE AddVariablesLoop(_, _, _, _)
AddVariablesLoop(vs, kind, i, num) ==
    IF i >= num THEN vs
    ELSE AddVariablesLoop(Append(vs, Variable(i, kind)), kind, i + 1, num)

\* Problem::add_variable
AddVariable(kind) ==
    /\ pc = "idle"
    /\ variables' = Append(variables, Variable(Len(variables), kind))
    /\ result' = Unit
    /\ previous' = Pending
    /\ UNCHANGED <<constraints, objective, pc, via, engine, matrix, gauss,
                   splx, brute>>

\* Problem::add_variables
AddVariables(kind, num) ==
    /\ pc = "idle"
    /\ variables' = AddVariablesLoop(variables, kind, 0, num)
    /\ result' = Unit
    /\ previous' = Pending
    /\ UNCHANGED <<constraints, objective, pc, via, engine, matrix, gauss,
                   splx, brute>>

\* add_constraint without the comparison of the widths
AddConstraintNoCheck(c) ==
    /\ pc = "idle"
    /\ constraints' = Append(constraints, c)
    /\ result' = Unit
    /\ previous' = Pending
    /\ UNCHANGED <<variables, objective, pc, via, engine, matrix, gauss,
                   splx, brute>>

\* Problem::add_constraint
AddConstraint(c) ==
    /\ pc = "idle"
    /\ IF ExprLen(c.expr) # Len(variables)
       THEN /\ result' = Err("InvalidConstraint")
            /\ UNCHANGED constraints
       ELSE /\ constraints' = Append(constraints, c)
            /\ result' = Unit
    /\ previous' = Pending
    /\ UNCHANGED <<variables, objective, pc, via, engine, matrix, gauss,
                   splx, brute>>

\* Problem::set_objective
SetObjective(expr, kind) ==
    /\ pc = "idle"
    /\ objective' = Objective(expr, kind)
    /\ result' = Unit
    /\ previous' = Pending
    /\ UNCHANGED <<variables, constraints, pc, via, engine, matrix, gauss,
                   splx, brute>>

\* Problem::new()
Init ==
    /\ variables = <<>>
    /\ constraints = <<>>
    /\ objective = NoObjective
    /\ pc = "idle"
    /\ via = "none"
    /\ engine = "none"
    /\ matrix = NoMatrix
    /\ gauss = NoGauss
    /\ splx = NoSimplex
    /\ brute = NoBrute
    /\ result = Unit
    /\ previous = Pending

Build ==
    \/ \E kind \in BuilderKinds :
            Len(variables) < MaxVars /\ AddVariable(kind)
    \/ \E kind \in BuilderKinds : \E num \in 1..MaxAddVars :
            Len(variables) + num <= MaxVars /\ AddVariables(kind, num)
    \/ \E w \in 0..MaxVars : \E e \in BuilderExprs(w) :
       \E k \in ConstraintKinds : \E c \in BuilderConsts :
            /\ Len(constraints) < MaxCons
            /\ AddConstraint(Constraint(ExpressionNew(e), k, c))
    \/ \E e \in BuilderTermExprs :
       \E k \in ConstraintKinds : \E c \in BuilderConsts :
            /\ Len(constraints) < MaxCons
            /\ AddConstraint(Constraint(e, k, c))
    \/ \E w \in 0..MaxVars : \E e \in BuilderExprs(w) :
       \E k \in ObjectiveKinds :
            SetObjective(ExpressionNew(e), k)
    \/ \E e \in BuilderTermExprs : \E k \in ObjectiveKinds :
            SetObjective(e, k)

Run ==
    \/ GaussStep
    \/ GaussBack
    \/ SimplexIterate
    \/ Phase2Transition
    \/ BruteStep
    \/ BruteFinish

Next == Build \/ Solve \/ Run

Spec == Init /\ [][Next]_vars


-----------------------------------------------------------------------------
(* Problems as the builder constructs them, for the engines taken alone    *)

\* Problem::continuous(n)
ProblemContinuous(n) == AddVariablesLoop(<<>>, Continuous, 0, n)

\* Problem::boolean(n)
ProblemBoolean(n) == AddVariablesLoop(<<>>, Integer(0, 1), 0, n)

\* create_constraint!(coeffs ; kind ; constant) with integer literals
Row(coeffs, kind, constant) ==
    Constraint(add_coeffs(ExpressionDefault,
                          [i \in 1..Len(coeffs) |-> R(coeffs[i])]),
               kind, R(constant))

\* create_expr!(coeffs)
Expr(coeffs) == ExpressionNew([i \in 1..Len(coeffs) |-> R(coeffs[i])])

IdleWith(vs, cs, obj) ==
    /\ variables = vs
    /\ constraints = cs
    /\ objective = obj
    /\ pc = "idle"
    /\ via = "none"
    /\ engine = "none"
    /\ matrix = NoMatrix
    /\ gauss = NoGauss
    /\ splx = NoSimplex
    /\ brute = NoBrute
    /\ result = Unit
    /\ previous = Pending

RatsBetween(lo, hi) == {R(k) : k \in lo..hi}

\* every constraint of n coefficients over the given values
ConstraintsOver(n, coeffs, kinds, consts) ==
    {Constraint(ExpressionNew(e), k, c) :
        e \in [1..n -> coeffs], k \in kinds, c \in consts}

ObjectivesOver(n, coeffs) ==
    {Objective(ExpressionNew(e), k) : e \in [1..n -> coeffs], k \in ObjectiveKinds}

\* the expressions of n terms built with add_term over the indices
\* 0..TermMaxKey: the expressions of n keys, which add_constraint accepts
\* for n variables
TermExprsOf(n) ==
    {AddTerms(ExpressionDefault, One, keys) :
        keys \in {ks \in SUBSET (0..TermMaxKey) : Cardinality(ks) = n}}

TermConstraintsOver(n, kinds, consts) ==
    {Constraint(e, k, c) : e \in TermExprsOf(n), k \in kinds, c \in consts}

TermObjectivesOver(n) ==
    {Objective(e, k) : e \in TermExprsOf(n), k \in ObjectiveKinds}

\* tests/gaussian_elimination.rs
TestGaussian ==
    {<<Row(<<2, 1, 1>>, "EqualTo", 3), Row(<<4, 2, 2>>, "EqualTo", 6),
       Constraint(Expr(<<1, 0, 1>>), "EqualTo", <<3, 2>>)>>,
     <<Row(<<2, 1, 1>>, "EqualTo", 3),
       Constraint(Expr(<<1, 0, 1>>), "EqualTo", <<3, 2>>),
       Row(<<2, 1, 0>>, "EqualTo", 2), Row(<<4, 2, 2>>, "EqualTo", 6)>>,
     <<Row(<<2, 1, 1>>, "EqualTo", 3),
       Constraint(Expr(<<1, 0, 1>>), "EqualTo", <<3, 2>>)>>,
     <<Row(<<2, 1, 1>>, "EqualTo", 3),
       Constraint(Expr(<<1, 0, 1>>), "EqualTo", <<3, 2>>),
       Row(<<2, 1, 0>>, "EqualTo", 2)>>,
     <<Row(<<2, 1, 1>>, "EqualTo", 3), Row(<<0, 1, 1>>, "EqualTo", 2),
       Row(<<0, 0, 1>>, "EqualTo", 1)>>}

\* dependent systems whose elimination rounds in f64: the third row is the
\* sum of the first two
TestGaussianRounding ==
    {<<Row(<<2, 1, 4>>, "EqualTo", 1), Row(<<7, 7, 7>>, "EqualTo", 6),
       Row(<<9, 8, 11>>, "EqualTo", 7)>>,
     <<Row(<<3, 1, 0>>, "EqualTo", 0), Row(<<7, 0, 1>>, "EqualTo", 0),
       Row(<<10, 1, 1>>, "EqualTo", 0)>>}

InitGauss ==
    \/ \E n \in 1..GaussMaxN :
       \E cs \in [1..n -> ConstraintsOver(n, RatsBetween(0, GaussMaxCoeff),
                                          {"EqualTo"},
                                          RatsBetween(0, GaussMaxCoeff))] :
            IdleWith(ProblemContinuous(n), cs, NoObjective)
    \/ \E n \in 0..GaussMaxSmall : \E m \in 0..GaussMaxSmall :
       \E cs \in [1..m -> ConstraintsOver(n, RatsBetween(0, GaussMaxCoeff),
                                          ConstraintKinds,
                                          RatsBetween(0, GaussMaxCoeff))] :
       \E obj \in {NoObjective}
                  \cup ObjectivesOver(n, RatsBetween(0, GaussMaxCoeff)) :
            IdleWith(ProblemContinuous(n), cs, obj)
    \/ \E cs \in TestGaussian \cup TestGaussianRounding :
            IdleWith(ProblemContinuous(3), cs, NoObjective)
    \/ \E n \in 1..TermMaxVars :
       \E cs \in [1..n -> TermConstraintsOver(n, {"EqualTo"},
                                              RatsBetween(0, GaussMaxCoeff))] :
            IdleWith(ProblemContinuous(n), cs, NoObjective)

NextGauss == CallGaussian \/ GaussStep \/ GaussBack

SpecGauss == InitGauss /\ [][NextGauss]_vars

\* tests/simplex.rs
TestSimplex ==
    {[n |-> 2,
      cs |-> <<Row(<<1, -1>>, "LessThanOrEqualTo", -5),
               Row(<<1, 0>>, "LessThanOrEqualTo", 10)>>,
      obj |-> Objective(Expr(<<2, 3>>), "Maximize")],
     [n |-> 3,
      cs |-> <<Row(<<3, 2, 1>>, "EqualTo", 10), Row(<<2, 5, 3>>, "EqualTo", 15)>>,
      obj |-> Objective(Expr(<<-2, -3, -4>>), "Minimize")],
     [n |-> 2,
      cs |-> <<Row(<<1, 1>>, "LessThanOrEqualTo", 10),
               Row(<<1, 2>>, "LessThanOrEqualTo", 15)>>,
      obj |-> Objective(Expr(<<2, 3>>), "Maximize")],
     [n |-> 3,
      cs |-> <<Row(<<3, 2, 1>>, "LessThanOrEqualTo", 10),
               Row(<<2, 5, 3>>, "LessThanOrEqualTo", 15)>>,
      obj |-> Objective(Expr(<<-2, -3, -4>>), "Minimize")],
     [n |-> 3,
      cs |-> <<Row(<<1, 1, 1>>, "GreaterThanOrEqualTo", 0)>>,
      obj |-> Objective(Expr(<<1, 1, 1>>), "Maximize")]}

\* problems on which the arithmetic of f64 rounds: 1/5 and 1/3 have no
\* exact f64
TestSimplexRounding ==
    {[n |-> 1,
      cs |-> <<Row(<<5>>, "GreaterThanOrEqualTo", 3), Row(<<5>>, "EqualTo", 3)>>,
      obj |-> Objective(Expr(<<-3>>), "Maximize")],
     [n |-> 2,
      cs |-> <<Row(<<1, 5>>, "LessThanOrEqualTo", 3),
               Row(<<3, -5>>, "EqualTo", -3)>>,
      obj |-> Objective(Expr(<<3, 2>>), "Minimize")],
     [n |-> 1, cs |-> <<Row(<<49>>, "LessThanOrEqualTo", 49)>>, obj |-> Objective(Expr(<<1>>), "Maximize")]}

\* problems of one constraint whose expressions were built with add_term
SimplexTermProblems ==
    UNION {{[n |-> n, cs |-> cs, obj |-> obj] :
               cs \in [1..1 ->
                          TermConstraintsOver(n, ConstraintKinds,
                                              RatsBetween(-1, SimplexMaxCoeff))],
               obj \in ObjectivesOver(n, RatsBetween(0, SimplexMaxCoeff))
                            \cup TermObjectivesOver(n)} :
           n \in 1..TermMaxVars}

InitSimplex ==
    \/ \E n \in 1..SimplexMaxDim : \E m \in 0..(SimplexMaxDim - n) :
       \E cs \in [1..m -> ConstraintsOver(n, RatsBetween(-1, SimplexMaxCoeff),
                                          ConstraintKinds,
                                          RatsBetween(-1, SimplexMaxCoeff))] :
       \E obj \in ObjectivesOver(n, RatsBetween(-1, SimplexMaxCoeff)) :
            IdleWith(ProblemContinuous(n), cs, obj)
    \/ \E t \in TestSimplex \cup TestSimplexRounding \cup SimplexTermProblems :
            IdleWith(ProblemContinuous(t.n), t.cs, t.obj)

NextSimplex == CallSimplex \/ SimplexIterate \/ Phase2Transition

SpecSimplex == InitSimplex /\ [][NextSimplex]_vars

\* two problems known to make the largest-coefficient rule cycle: Beale
\* (1955) and Chvatal (1983); every coefficient is an exact f64
TestCycling ==
    {[n |-> 4,
      cs |-> <<Constraint(ExpressionNew(<<<<1, 4>>, R(-8), R(-1), R(9)>>),
                          "LessThanOrEqualTo", Zero),
               Constraint(ExpressionNew(<<<<1, 2>>, R(-12), <<-1, 2>>, R(3)>>),
                          "LessThanOrEqualTo", Zero),
               Row(<<0, 0, 1, 0>>, "LessThanOrEqualTo", 1)>>,
      obj |-> Objective(ExpressionNew(<<<<3, 4>>, R(-20), <<1, 2>>, R(-6)>>),
                        "Maximize")],
     [n |-> 4,
      cs |-> <<Constraint(ExpressionNew(<<<<1, 2>>, <<-11, 2>>, <<-5, 2>>, R(9)>>),
                          "LessThanOrEqualTo", Zero),
               Constraint(ExpressionNew(<<<<1, 2>>, <<-3, 2>>, <<-1, 2>>, R(1)>>),
                          "LessThanOrEqualTo", Zero),
               Row(<<1, 0, 0, 0>>, "LessThanOrEqualTo", 1)>>,
      obj |-> Objective(Expr(<<10, -57, -9, -24>>), "Maximize")]}

\* the problems of InitSimplex and the two cycling ones
SimplexLiveProblems ==
    UNION {{[n |-> d[1], cs |-> cs, obj |-> obj] :
               cs \in [1..d[2] ->
                          ConstraintsOver(d[1], RatsBetween(-1, SimplexMaxCoeff),
                                          ConstraintKinds,
                                          RatsBetween(-1, SimplexMaxCoeff))],
               obj \in ObjectivesOver(d[1], RatsBetween(-1, SimplexMaxCoeff))} :
           d \in {e \in (1..SimplexMaxDim) \X (0..SimplexMaxDim) :
                     e[1] + e[2] <= SimplexMaxDim}}
    \cup TestSimplex \cup TestSimplexRounding \cup TestCycling
    \cup SimplexTermProblems

\* Problem::continuous(n), add_constraint for each constraint and
\* set_objective, as the tests build a problem before they solve it
ConstructProblem ==
    /\ pc = "idle"
    /\ variables = <<>>
    /\ constraints = <<>>
    /\ ~objective.set
    /\ \E t \in SimplexLiveProblems :
            /\ variables' = ProblemContinuous(t.n)
            /\ constraints' = t.cs
            /\ objective' = t.obj
    /\ result' = Unit
    /\ UNCHANGED <<pc, via, engine, matrix, gauss, splx, brute, previous>>

NextSimplexLive == ConstructProblem \/ NextSimplex

\* the engine runs on one thread and never waits: every step that can be
\* taken is taken.  This is WF_vars(NextSimplexLive) with
\* ENABLED <<NextSimplexLive>>_vars written as the state predicate it equals:
\* a step can be taken exactly when solve() has not returned
SpecSimplexLive ==
    /\ Init
    /\ [][NextSimplexLive]_vars
    /\ ([]<>(pc = "done") \/ []<><<NextSimplexLive>>_vars)

\* tests/brute.rs
TestBrute ==
    {[n |-> 2,
      cs |-> <<Row(<<1, 1>>, "EqualTo", 1), Row(<<1, 1>>, "EqualTo", 2)>>,
      obj |-> Objective(Expr(<<1, 1>>), "Maximize")],
     [n |-> 1,
      cs |-> <<Row(<<1>>, "EqualTo", 1)>>,
      obj |-> Objective(Expr(<<1>>), "Maximize")],
     [n |-> 3,
      cs |-> <<Row(<<1, 0, 1>>, "EqualTo", 2), Row(<<0, 1, 1>>, "EqualTo", 2)>>,
      obj |-> Objective(Expr(<<1, 2, 3>>), "Maximize")],
     [n |-> 5,
      cs |-> <<Row(<<1, 1, 1, 1, 1>>, "EqualTo", 2),
               Row(<<3, 2, 1, 1, 2>>, "EqualTo", 3),
               Row(<<-2, -1, -1, -3, -2>>, "EqualTo", -4)>>,
      obj |-> Objective(Expr(<<4, 5, 3, 4, 5>>), "Maximize")]}

\* objective coefficients that are not finite (f64::INFINITY,
\* f64::NEG_INFINITY, f64::NAN), beside 1.0
BruteNonFinite == {PosInf, NegInf, NaN, One}

BruteKinds ==
    {Continuous}
    \cup {Integer(lo, hi) : lo \in 0..BruteMaxInt, hi \in 0..BruteMaxInt}

\* the variable lists add_variable builds from the given kinds
VariablesOver(n, kinds) ==
    {[i \in 1..n |-> Variable(i - 1, ks[i])] : ks \in [1..n -> kinds]}

InitBrute ==
    \/ \E n \in 1..BruteMaxVars : \E m \in 0..BruteMaxCons :
       \E vs \in VariablesOver(n, BruteKinds) :
       \E cs \in [1..m -> ConstraintsOver(n, RatsBetween(-1, BruteMaxCoeff),
                                          ConstraintKinds,
                                          RatsBetween(0, BruteMaxCoeff))] :
       \E obj \in {NoObjective}
                  \cup ObjectivesOver(n, RatsBetween(-1, BruteMaxCoeff)) :
            IdleWith(vs, cs, obj)
    \/ \E t \in TestBrute : IdleWith(ProblemBoolean(t.n), t.cs, t.obj)
    \/ \E n \in 1..TermMaxVars : \E m \in 0..BruteMaxCons :
       \E cs \in [1..m -> TermConstraintsOver(n, ConstraintKinds,
                                              RatsBetween(0, BruteMaxCoeff))] :
       \E obj \in TermObjectivesOver(n) :
            IdleWith(ProblemBoolean(n), cs, obj)
    \/ \E n \in 1..TermMaxVars :
       \E vs \in VariablesOver(n, {Integer(0, 1), Integer(1, 1)}) :
       \E obj \in ObjectivesOver(n, BruteNonFinite) :
            IdleWith(vs, <<>>, obj)

NextBrute == CallBrute \/ BruteStep \/ BruteFinish

SpecBrute == InitBrute /\ [][NextBrute]_vars


-----------------------------------------------------------------------------
(* Vocabulary of the properties                                            *)

AnyInteger ==
    \E i \in 1..Len(variables) : variables[i].kind.kind = "Integer"

\* the tolerance of the properties, 1e-6
Tolerance == <<1, -72, <<11661, 727, 12154, 1073>>>>

\* the expression e evaluated at the point x (a Vec of num_variables values)
ExprAt(e, x) ==
    RSum(num_variables, [i \in 0..(num_variables - 1) |-> RMul(ExprGet(e, i), x[i])])

\* the constraint c is met at x within the tolerance tol > 0, with the
\* strict comparisons of meets_constraints
SatisfiedWithin(c, x, tol) ==
    CASE c.kind = "GreaterThanOrEqualTo" ->
            RGt(ExprAt(c.expr, x), RSub(c.constant, tol))
      [] c.kind = "EqualTo" ->
            RLt(RAbs(RSub(ExprAt(c.expr, x), c.constant)), tol)
      [] c.kind = "LessThanOrEqualTo" ->
            RLt(ExprAt(c.expr, x), RAdd(c.constant, tol))

\* the relation a constraint of kind c.kind states, at the point x
Satisfied(c, x) ==
    CASE c.kind = "LessThanOrEqualTo" -> RLe(ExprAt(c.expr, x), c.constant)
      [] c.kind = "GreaterThanOrEqualTo" -> RGe(ExprAt(c.expr, x), c.constant)
      [] c.kind = "EqualTo" -> REq(ExprAt(c.expr, x), c.constant)

\* x satisfies every constraint of the problem exactly
Feasible(x) ==
    \A k \in 1..Len(constraints) : Satisfied(constraints[k], x)

\* the points with coordinates in 0..GridMax
Grid == [0..(num_variables - 1) -> RatsBetween(0, GridMax)]

\* objective value a is strictly better than b
StrictlyBetter(a, b) ==
    IF objective.kind = "Maximize" THEN RGt(a, b) ELSE RLt(a, b)

\* d is a direction along which every constraint stays satisfied and the
\* objective improves without bound
ImprovingRay(d) ==
    /\ \A k \in 1..Len(constraints) :
          CASE constraints[k].kind = "LessThanOrEqualTo" ->
                    RLe(ExprAt(constraints[k].expr, d), Zero)
            [] constraints[k].kind = "GreaterThanOrEqualTo" ->
                    RGe(ExprAt(constraints[k].expr, d), Zero)
            [] constraints[k].kind = "EqualTo" ->
                    RIsZero(ExprAt(constraints[k].expr, d))
    /\ StrictlyBetter(ExprAt(objective.expr, d), Zero)

\* the points with coordinates in 0..FeasMax
FeasGrid == [0..(num_variables - 1) -> RatsBetween(0, FeasMax)]

\* the linear program is feasible and its objective is unbounded: a
\* feasible point and an improving ray exist. The search is over FeasGrid
\* and Grid, so it is TRUE only of unbounded programs and may miss one whose
\* feasible points or rays lie outside these sets. This is the property of
\* the program, not the branch of simplex() that reports it.
Unbounded ==
    (\E x \in FeasGrid : Feasible(x)) /\ (\E d \in Grid : ImprovingRay(d))

\* the lattice of the brute-force engine: the product of the ranges
Lattice ==
    {q \in [0..(num_variables - 1) -> (0 - BruteMaxInt - 1)..(BruteMaxInt + 1)] :
        \A i \in 0..(num_variables - 1) :
            /\ BruteBound(Problem, i).min <= q[i]
            /\ q[i] <= BruteBound(Problem, i).max}

BruteObjectiveAt(q) ==
    get_constraint_value(q, BruteCoeffs(Problem, objective.expr))

\* the integer a value of the Solution stands for
AsInteger(x) == x[1]

SolutionPoint == [i \in DOMAIN result.coeffs |-> AsInteger(result.coeffs[i])]

-----------------------------------------------------------------------------
(* The builder alone, with more constraints than Spec affords               *)

BuildMaxVars == 2
BuildMaxCons == 2
BuildMaxAdd == 2
BuildMaxList == 2

BuildKinds == {Continuous, Integer(0, 1)}

BuildConstraints ==
    UNION {{Constraint(ExpressionNew(e), k, c) :
                e \in BuilderExprs(w), k \in ConstraintKinds, c \in BuilderConsts} :
           w \in 0..BuildMaxVars}

\* constraints whose expression was built with add_term
BuildTermConstraints ==
    {Constraint(e, "EqualTo", Zero) : e \in BuilderTermExprs}

\* the constraints handed to add_constraints in lists
BuildListConstraints ==
    {c \in BuildConstraints : c.kind = "EqualTo" /\ c.constant = Zero}

\* the loop of add_constraints over the list cs from position k on: it stops
\* at the first constraint add_constraint refuses
RECURSIVE AddConstraintsLoop(_, _, _, _)
AddConstraintsLoop(vs, cons, cs, k) ==
    IF k > Len(cs) THEN [constraints |-> cons, result |-> Unit]
    ELSE IF ExprLen(cs[k].expr) # Len(vs)
    THEN [constraints |-> cons, result |-> Err("InvalidConstraint")]
    ELSE AddConstraintsLoop(vs, Append(cons, cs[k]), cs, k + 1)

\* Problem::add_constraints
AddConstraints(cs) ==
    /\ pc = "idle"
    /\ constraints' = AddConstraintsLoop(variables, constraints, cs, 1).constraints
    /\ result' = AddConstraintsLoop(variables, constraints, cs, 1).result
    /\ previous' = Pending
    /\ UNCHANGED <<variables, objective, pc, via, engine, matrix, gauss,
                   splx, brute>>

\* Problem::add_row
AddRow(values, kind, constant) ==
    AddConstraint(Constraint(ExpressionNew(values), kind, constant))

NextBuild ==
    \/ \E kind \in BuildKinds :
            Len(variables) < BuildMaxVars /\ AddVariable(kind)
    \/ \E kind \in BuildKinds : \E num \in 0..BuildMaxAdd :
            Len(variables) + num <= BuildMaxVars /\ AddVariables(kind, num)
    \/ \E c \in BuildConstraints \cup BuildTermConstraints :
            Len(constraints) < BuildMaxCons /\ AddConstraint(c)
    \/ \E n \in 0..BuildMaxList : \E cs \in [1..n -> BuildListConstraints] :
            Len(constraints) + n <= BuildMaxCons /\ AddConstraints(cs)
    \/ \E w \in 0..BuildMaxVars : \E e \in BuilderExprs(w) :
       \E k \in ConstraintKinds : \E c \in BuilderConsts :
            Len(constraints) < BuildMaxCons /\ AddRow(e, k, c)
    \/ \E w \in 0..BuildMaxVars : \E e \in BuilderExprs(w) :
       \E k \in ObjectiveKinds :
            SetObjective(ExpressionNew(e), k)

SpecBuild == Init /\ [][NextBuild]_vars

-----------------------------------------------------------------------------
(* solve() called a second time on the same Problem                        *)

\* solve() has returned: the caller keeps the outcome, everything the engine
\* owned is dropped, and the Problem is ready to be solved again
KeepOutcome ==
    /\ pc = "done"
    /\ via = "solve"
    /\ result.kind # "Panic"
    /\ previous = Pending
    /\ previous' = result
    /\ pc' = "idle"
    /\ via' = "none"
    /\ engine' = "none"
    /\ matrix' = NoMatrix
    /\ gauss' = NoGauss
    /\ splx' = NoSimplex
    /\ brute' = NoBrute
    /\ UNCHANGED <<problemVars, result>>

InitTwice == InitGauss \/ InitSimplex \/ InitBrute

NextTwice == Solve \/ Run \/ KeepOutcome

SpecTwice == InitTwice /\ [][NextTwice]_vars

\* impl PartialEq for Solution: the objectives and every value compared
\* with the == of f64
SolutionEq(a, b) ==
    /\ a.has_objective = b.has_objective
    /\ a.has_objective => REq(a.objective, b.objective)
    /\ VLen(a.coeffs) = VLen(b.coeffs)
    /\ \A i \in DOMAIN a.coeffs : REq(a.coeffs[i], b.coeffs[i])

\* two outcomes of solve(): equal Solutions, or errors of the same kind
SameOutcome(a, b) ==
    IF a.kind = "Ok" /\ b.kind = "Ok" THEN SolutionEq(a, b)
    ELSE a.kind = "Err" /\ b.kind = "Err" /\ a.err = b.err

-----------------------------------------------------------------------------
(* Properties                                                              *)

\* C1: Problem.solve() chooses the engine from (objective set, some Integer
\* variable) alone: Gaussian, UnableToSolve without an engine, Simplex, brute.
C1_DispatchByShape ==
    via = "solve" =>
        /\ (~objective.set /\ ~AnyInteger) => engine = "gaussian"
        /\ (~objective.set /\ AnyInteger) =>
                /\ engine = "none"
                /\ pc = "done"
                /\ result = Err("UnableToSolve")
                /\ matrix = NoMatrix
                /\ brute = NoBrute
        /\ (objective.set /\ ~AnyInteger) => engine = "simplex"
        /\ (objective.set /\ AnyInteger) => engine = "brute"

\* C1 witness: an Integer problem with a constraint and no objective was refused
C1_Witness ==
    /\ via = "solve"
    /\ engine = "none"
    /\ result = Err("UnableToSolve")
    /\ AnyInteger
    /\ Len(constraints) > 0

\* C2: solve() never terminates the process, whatever Problem the builder made.
C2_SolveNeverPanics == via = "solve" => result.kind # "Panic"

\* C3: a Simplex Ok satisfies every constraint within 1e-6 and reports the
\* objective expression evaluated at the returned values, within 1e-6.
C3_SimplexOkFeasible ==
    (engine = "simplex" /\ result.kind = "Ok") =>
        /\ \A k \in 1..Len(constraints) :
              SatisfiedWithin(constraints[k], result.coeffs, Tolerance)
        /\ RLe(RAbs(RSub(result.objective, ExprAt(objective.expr, result.coeffs))),
               Tolerance)

\* C4: a Simplex Ok is optimal: no non-negative point that satisfies every
\* constraint has a strictly better objective than the reported one.
C4_SimplexOkOptimal ==
    (engine = "simplex" /\ result.kind = "Ok") =>
        \A x \in Grid :
            Feasible(x) => ~StrictlyBetter(ExprAt(objective.expr, x), result.objective)

\* C5: a Gaussian Ok has N values and no objective, and the values reproduce
\* the right-hand side of every constraint.
C5_GaussOkSolves ==
    (engine = "gaussian" /\ result.kind = "Ok") =>
        /\ VLen(result.coeffs) = num_variables
        /\ ~result.has_objective
        /\ \A k \in 1..Len(constraints) :
              REq(ExprAt(constraints[k].expr, result.coeffs), constraints[k].constant)

\* C6: a brute-force Ok is a point of the lattice that passes the feasibility
\* test, its objective is the objective at that point, and no feasible point
\* of the lattice is strictly better.
C6_BruteOkBestOfLattice ==
    (engine = "brute" /\ result.kind = "Ok") =>
        /\ \A i \in 0..(num_variables - 1) :
              /\ result.coeffs[i][2] = 1
              /\ BruteBound(Problem, i).min <= AsInteger(result.coeffs[i])
              /\ AsInteger(result.coeffs[i]) <= BruteBound(Problem, i).max
        /\ meets_constraints(Problem, SolutionPoint)
        /\ result.objective = BruteObjectiveAt(SolutionPoint)
        /\ \A q \in Lattice :
              meets_constraints(Problem, q)
                  => ~StrictlyBetter(BruteObjectiveAt(q), result.objective)

\* C7: with an objective, brute force fails with Infeasible exactly when no
\* point of the lattice is feasible, and returns Ok whenever one is.
C7_BruteInfeasibleIffNone ==
    (engine = "brute" /\ objective.set /\ pc = "done" /\ result.kind # "Panic") =>
        /\ result = Err("Infeasible")
              <=> ~(\E q \in Lattice : meets_constraints(Problem, q))
        /\ (\E q \in Lattice : meets_constraints(Problem, q)) => result.kind = "Ok"

\* C8: a selected pivot column without a pivot row ends the solve with
\* Infeasible, and a solve of an unbounded linear program that returns,
\* returns Infeasible, never Ok.
C8_UnboundedIsInfeasible ==
    (engine = "simplex" /\ pc = "done" /\ result.kind \in {"Ok", "Err"}) =>
        /\ ( /\ splx.phase >= 1
             /\ ~SimplexCapReached(matrix, splx.iteration)
             /\ LET kind == IF splx.phase = 1 THEN "Minimize" ELSE objective.kind
                    skip == IF splx.phase = 1 THEN 2 ELSE 1
                    col == select_pivot_column(matrix, kind)
                IN  col # NoCol /\ select_pivot_row(matrix, col, skip) = NoRow )
              => result = Err("Infeasible")
        /\ (objective.set /\ Unbounded) => result = Err("Infeasible")

\* C9: Phase II runs only after Phase I converged with |cell(0, W-1)| <= 1e-6;
\* a Phase I failure or residual is returned and Phase II never runs.
C9_PhaseOrder ==
    engine = "simplex" =>
        /\ splx.phase = 2 =>
              /\ splx.phase1.kind = "Ok"
              /\ RLe(RAbs(splx.phase1.objective), OPTIMALITY_TOL)
              /\ RLe(RAbs(matrix.coeffs[matrix.width - 1]), OPTIMALITY_TOL)
        /\ (splx.phase = 1 /\ pc = "done") =>
              /\ result.kind \in {"Err", "Panic"}
              /\ matrix.start_x = 0 /\ matrix.start_y = 0
        /\ ( /\ splx.phase1.kind = "Ok"
             /\ RGt(RAbs(splx.phase1.objective), OPTIMALITY_TOL)
             /\ pc # "transition" )
              => /\ pc = "done"
                 /\ splx.phase = 1
                 /\ result = Err("Infeasible")

\* C9 witness: Phase I converged with a residual and the solve returned
\* Infeasible with the window not narrowed
C9_Witness ==
    /\ engine = "simplex"
    /\ pc = "done"
    /\ splx.phase = 1
    /\ splx.phase1.kind = "Ok"
    /\ RGt(RAbs(splx.phase1.objective), OPTIMALITY_TOL)
    /\ result = Err("Infeasible")

\* C10: Gaussian setup rejects, in this order, an objective (InvalidObjective),
\* a constraint count other than the variable count (InvalidConstraint), a
\* constraint that is not an equality (InvalidConstraint), all before any
\* matrix exists; otherwise the matrix is (N+1) x N, row i holding the
\* coefficients of constraint i and its constant in column N.
C10_GaussianSetup ==
    engine = "gaussian" =>
        IF objective.set
        THEN result = Err("InvalidObjective") /\ matrix = NoMatrix
        ELSE IF num_constraints # num_variables
        THEN result = Err("InvalidConstraint") /\ matrix = NoMatrix
        ELSE IF \E k \in 1..num_constraints : constraints[k].kind # "EqualTo"
        THEN result = Err("InvalidConstraint") /\ matrix = NoMatrix
        ELSE /\ matrix.width = num_variables + 1
             /\ matrix.height = num_variables
             /\ VLen(matrix.coeffs) = (num_variables + 1) * num_variables
             /\ (pc = "reduce" /\ gauss.steps = 0) =>
                   \A i \in 0..(num_variables - 1) :
                       /\ value(matrix, i, num_variables) = constraints[i + 1].constant
                       /\ \A j \in 0..(num_variables - 1) :
                             value(matrix, i, j) = ExprGet(constraints[i + 1].expr, j)

\* C12 as stated: the brute-force engine, called without an objective, fails
\* with UnableToSolve and enumerates nothing.
C12_BruteNoObjectiveUnable ==
    (engine = "brute" /\ via = "direct" /\ ~objective.set) =>
        /\ pc = "done"
        /\ result = Err("UnableToSolve")
        /\ brute = NoBrute

\* C12 amended: the brute-force engine, called without an objective, fails
\* with InvalidObjective and enumerates nothing; only Problem.solve() answers
\* UnableToSolve, before any engine runs.
C12_BruteNoObjectiveInvalid ==
    (engine = "brute" /\ via = "direct" /\ ~objective.set) =>
        /\ pc = "done"
        /\ result = Err("InvalidObjective")
        /\ brute = NoBrute

\* C12 witness: the engine was called on an Integer problem with a constraint
\* and no objective and has returned
C12_Witness ==
    /\ engine = "brute"
    /\ via = "direct"
    /\ ~objective.set
    /\ AnyInteger
    /\ Len(constraints) > 0
    /\ result = Err("InvalidObjective")

\* C13: add_constraint(c) appends c as the last constraint and succeeds
\* exactly when c has as many coefficients as there are variables; otherwise
\* it fails with InvalidConstraint and the constraints stay as they were; the
\* variables and the objective are untouched either way.
C13_AddConstraint ==
    [][\A c \in BuildConstraints \cup BuildTermConstraints :
          AddConstraint(c) =>
              /\ UNCHANGED <<variables, objective>>
              /\ IF ExprLen(c.expr) = num_variables
                 THEN /\ result' = Unit
                      /\ Len(constraints') = Len(constraints) + 1
                      /\ constraints'[Len(constraints')] = c
                      /\ SubSeq(constraints', 1, Len(constraints)) = constraints
                 ELSE /\ result' = Err("InvalidConstraint")
                      /\ constraints' = constraints]_vars

\* C13 witness: with two variables and one constraint stored, a constraint
\* was refused
C13_Witness ==
    /\ pc = "idle"
    /\ num_variables = 2
    /\ num_constraints = 1
    /\ result = Err("InvalidConstraint")

\* C14: no step of solve() changes the Problem, and a second solve() of the
\* same Problem returns the outcome of the first: an equal Solution, or an
\* error of the same kind.
C14_SolveTwice ==
    [][/\ UNCHANGED problemVars
       /\ (pc' = "done" /\ previous' # Pending)
              => SameOutcome(previous', result')]_vars

\* C15: the inner Simplex loop performs at most W*H pivots and is left in
\* one of three ways: with a Solution when no pivot column exists, with
\* Infeasible when the pivot column has no pivot row, with UnableToSolve when
\* the iteration counter has reached W*H; every run of the loop ends, and so
\* does every Simplex solve().
C15_SimplexTerminates ==
    /\ [](pc = "simplex" => splx.iteration <= matrix.width * matrix.height)
    /\ [][(SimplexIterate /\ pc' # "simplex") =>
            LET objective_rows == IF splx.phase = 1 THEN 2 ELSE 1
                objective_kind == IF splx.phase = 1 THEN "Minimize"
                                  ELSE objective.kind
                pivot_col == select_pivot_column(matrix, objective_kind)
                pivot_row == select_pivot_row(matrix, pivot_col, objective_rows)
                ended == IF pc' = "transition" THEN splx'.phase1 ELSE result'
            IN  /\ matrix' = matrix
                /\ pc' \in {"transition", "done"}
                /\ \/ /\ ended.kind = "Ok"
                      /\ pivot_col = NoCol
                   \/ /\ ended = Err("Infeasible")
                      /\ pivot_col # NoCol
                      /\ pivot_row = NoRow
                   \/ /\ ended = Err("UnableToSolve")
                      /\ splx.iteration = matrix.width * matrix.height]_vars
    /\ [][(SimplexIterate /\ pc' = "simplex") =>
            splx'.iteration = splx.iteration + 1]_vars
    /\ [](pc = "simplex" => <>(pc # "simplex"))
    /\ <>(pc = "done")

C15_Witness ==
    /\ engine = "simplex"
    /\ pc = "done"
    /\ result = Err("UnableToSolve")
    /\ splx.phase = 2
    /\ splx.iteration = matrix.width * matrix.height

\* C16: after any sequence of add_variable and add_variables calls the
\* variable at position p of the list (counted from 0) has index p, and no
\* two variables share an index.
C16_DenseIndices ==
    /\ \A p \in 1..Len(variables) : variables[p].index = p - 1
    /\ \A p, q \in 1..Len(variables) :
            variables[p].index = variables[q].index => p = q

\* C17: the Phase II transition zeroes exactly the artificial columns, the
\* column n+2+i of every EqualTo constraint i, in every row of the new window,
\* and changes no other cell, whatever the order of the constraint kinds.
C17_Phase2ZeroesArtificial ==
    [][(Phase2Transition /\ pc' = "simplex") =>
        LET artificial == {num_variables + 2 + i : i \in
                            {j \in 0..(num_constraints - 1) :
                                constraints[j + 1].kind = "EqualTo"}}
        IN  \A o \in DOMAIN matrix.coeffs :
                matrix'.coeffs[o] =
                    IF RowOf(matrix', o) \in rows(matrix')
                       /\ ColOf(matrix', o) \in artificial
                    THEN Zero
                    ELSE matrix.coeffs[o]]_vars

\* C18: in the tableau that setup_matrix builds, row i+2 is equivalent to
\* constraint i, also when the row was negated for a negative constant: a
\* point x >= 0 satisfies the constraint exactly when the row's equation
\* row·x + slack·s = rhs holds for some s >= 0 in column n+2+i (s = 0 for an
\* EqualTo constraint).
C18_RowEquivalent ==
    (engine = "simplex" /\ pc = "simplex" /\ splx.phase = 1
        /\ splx.iteration = 0) =>
    \A i \in 0..(num_constraints - 1) : \A x \in Grid :
        LET c == constraints[i + 1]
            lhs == RSum(num_variables,
                        [j \in 0..(num_variables - 1) |->
                            RMul(value(matrix, i + 2, 2 + j), x[j])])
            rhs == value(matrix, i + 2, last_col(matrix))
            slack == value(matrix, i + 2, num_variables + 2 + i)
            s == RDiv(RSub(rhs, lhs), slack)
        IN  Satisfied(c, x) <=>
                IF c.kind = "EqualTo" THEN REq(lhs, rhs) ELSE RGe(s, Zero)

\* C19: the right-hand-side cell of every constraint row (rows 2..m+1) of
\* the Simplex tableau is >= 0 after construction, after every pivot of
\* either phase and after the Phase II transition.
C19_RhsNonNegative ==
    (engine = "simplex" /\ matrix # NoMatrix) =>
        \A r \in 2..(num_constraints + 1) :
            RGe(value(matrix, r, last_col(matrix)), Zero)

\* C20: when produce_solution runs (at the end of either phase), every
\* column of an original variable with exactly one non-zero entry among the
\* rows of the window has that entry equal to 1, in a constraint row (rows
\* 2..m+1, not an objective row).  The column of variable i is column 2+i.
C20_BasicColumns ==
    (pc = "simplex" /\ ~SimplexCapReached(matrix, splx.iteration)
        /\ select_pivot_column(matrix,
                IF splx.phase = 1 THEN "Minimize" ELSE objective.kind)
                = NoCol) =>
    \A i \in 0..(num_variables - 1) :
        LET col == 2 + i
            nz == NonZeroRows(matrix, col)
        IN  Cardinality(nz) = 1 =>
                \A r \in nz : /\ REq(value(matrix, r, col), One)
                              /\ r \in 2..(num_constraints + 1)

\* the augmented row of constraint k as integers: the coefficients and the
\* constant, multiplied by the largest denominator of the row
AugmentedRow(k) ==
    LET c == constraints[k]
        n == num_variables
        cell(j) == IF j <= n THEN ExprGet(c.expr, j - 1) ELSE c.constant
        s == CHOOSE d \in {cell(j)[2] : j \in 1..(n + 1)} :
                \A j \in 1..(n + 1) : cell(j)[2] <= d
    IN  [j \in 1..(n + 1) |-> cell(j)[1] * (s \div cell(j)[2])]

\* the determinant of the rows rs (a sequence of row numbers) over the columns
\* cs (a sequence of column numbers of the same length), by expansion along
\* the first row
RECURSIVE Det(_, _)
Det(rs, cs) ==
    IF Len(rs) = 0 THEN 1
    ELSE LET drop(q, i) == [j \in 1..(Len(q) - 1) |->
                                IF j < i THEN q[j] ELSE q[j + 1]]
             term(i) == (IF i % 2 = 1 THEN 1 ELSE -1)
                            * AugmentedRow(rs[1])[cs[i]]
                            * Det(Tail(rs), drop(cs, i))
             sum[i \in 0..Len(cs)] ==
                 IF i = 0 THEN 0 ELSE sum[i - 1] + term(i)
         IN  sum[Len(cs)]

\* some augmented row is a linear combination of the others (a zero row is
\* the empty combination): every N x N minor of the N x (N+1) matrix is 0
AugmentedDependent ==
    LET n == num_variables
        all == [j \in 1..(n + 1) |-> j]
    IN  \A k \in 1..(n + 1) :
            Det([j \in 1..n |-> j],
                [j \in 1..n |-> IF j < k THEN all[j] ELSE all[j + 1]]) = 0

\* an N x N system of equalities, N >= 1, with no objective (the shape the
\* Gaussian engine accepts)
SquareEqualities ==
    /\ num_variables >= 1
    /\ ~objective.set
    /\ num_constraints = num_variables
    /\ \A k \in 1..num_constraints : constraints[k].kind = "EqualTo"

\* C11: for every N x N equality system in which some augmented row is a
\* linear combination of the other rows, or is entirely zero, the Gaussian
\* engine fails with Underspecified and returns no Solution; and after every
\* step of the reduction, a step that only advances the pivot column included,
\* a zero row ends the run with Underspecified.
C11_DependentUnderspecified ==
    /\ [](engine = "gaussian" /\ pc = "done" /\ SquareEqualities
            /\ AugmentedDependent
          => result = Err("Underspecified"))
    /\ [][GaussStep =>
            IF has_zero_row(matrix')
            THEN pc' = "done" /\ result' = Err("Underspecified")
            ELSE pc' = "reduce"]_vars

\* the objective kind of the running phase: Phase I always minimises
PhaseKind == IF splx.phase = 1 THEN "Minimize" ELSE objective.kind

\* the entry of the window's first row in col has the sign that improves
Improving(col) ==
    IF PhaseKind = "Minimize"
    THEN RGt(value(matrix, first_row(matrix), col), Zero)
    ELSE RLt(value(matrix, first_row(matrix), col), Zero)

\* C21: select_pivot_column scans the columns first_col+1 .. last_col-1 of
\* the window's first row; it returns the column with the largest strictly
\* positive entry (Minimize) or the smallest strictly negative entry
\* (Maximize), the first scanned one among equal entries, and no column
\* exactly when no scanned entry has the strict sign; then the loop stops and
\* produce_solution reports the tableau.  Neither an objective marker column
\* (0, 1) nor the right-hand-side column is ever selected.
C21_PivotColumn ==
    /\ [](pc = "simplex" =>
            LET scanned == (first_col(matrix) + 1)..(last_col(matrix) - 1)
                c == select_pivot_column(matrix, PhaseKind)
                v(col) == value(matrix, first_row(matrix), col)
            IN  /\ c = NoCol <=> \A d \in scanned : ~Improving(d)
                /\ c # NoCol =>
                    /\ c \in scanned
                    /\ Improving(c)
                    /\ c \notin {0, 1, last_col(matrix)}
                    /\ \A d \in scanned :
                        IF PhaseKind = "Minimize"
                        THEN RLe(v(d), v(c)) /\ (d < c => RLt(v(d), v(c)))
                        ELSE RGe(v(d), v(c)) /\ (d < c => RGt(v(d), v(c))))
    /\ [][(pc = "simplex"
            /\ select_pivot_column(matrix, PhaseKind) = NoCol) =>
          IF splx.phase = 1
          THEN pc' = "transition"
                /\ splx'.phase1 = produce_solution(matrix, num_variables)
          ELSE pc' = "done"
                /\ result' = produce_solution(matrix, num_variables)]_vars

\* a Phase II scan under Maximize in which two columns hold the same smallest
\* negative entry, and the first of them is returned
C21_Witness ==
    /\ pc = "simplex"
    /\ splx.phase = 2
    /\ objective.kind = "Maximize"
    /\ LET c == select_pivot_column(matrix, "Maximize")
       IN  /\ c # NoCol
           /\ \E d \in (c + 1)..(last_col(matrix) - 1) :
                value(matrix, first_row(matrix), d)
                    = value(matrix, first_row(matrix), c)

\* the number of objective rows at the top of the window
PhaseObjectiveRows == IF splx.phase = 1 THEN 2 ELSE 1

\* the ratio test of a row: right-hand side over the pivot-column entry
Ratio(row, col) ==
    RDiv(value(matrix, row, last_col(matrix)), value(matrix, row, col))

\* the row is below the objective rows and passes the two guards of the
\* scan: neither value <= 0.0 nor min_ratio_test < 0.0. On a tableau without
\* NaN that is a strictly positive entry and a ratio that is not negative.
Qualifies(row, col) ==
    /\ row >= first_row(matrix) + PhaseObjectiveRows
    /\ row <= last_row(matrix)
    /\ ~RLe(value(matrix, row, col), Zero)
    /\ ~RLt(Ratio(row, col), Zero)

\* C22: select_pivot_row never returns one of the top objective rows of the
\* window (2 in Phase I, 1 in Phase II); it returns the row with the smallest
\* ratio cell(row, last_col) / cell(row, pivot_col) among the rows whose
\* pivot-column entry is strictly positive and whose ratio is not negative,
\* the first such row among equal ratios, and no row exactly when no row
\* qualifies.
C22_PivotRow ==
    (pc = "simplex" /\ select_pivot_column(matrix, PhaseKind) # NoCol) =>
        LET c == select_pivot_column(matrix, PhaseKind)
            r == select_pivot_row(matrix, c, PhaseObjectiveRows)
        IN  /\ r = NoRow <=> \A q \in rows(matrix) : ~Qualifies(q, c)
            /\ r # NoRow =>
                /\ r >= first_row(matrix) + PhaseObjectiveRows
                /\ Qualifies(r, c)
                /\ \A q \in rows(matrix) : Qualifies(q, c) =>
                        /\ RLe(Ratio(r, c), Ratio(q, c))
                        /\ (q < r => RLt(Ratio(r, c), Ratio(q, c)))

\* a ratio test in which two rows hold the same smallest ratio and the first
\* of them is returned
C22_Witness ==
    /\ pc = "simplex"
    /\ select_pivot_column(matrix, PhaseKind) # NoCol
    /\ LET c == select_pivot_column(matrix, PhaseKind)
           r == select_pivot_row(matrix, c, PhaseObjectiveRows)
       IN  /\ r # NoRow
           /\ \E q \in (r + 1)..last_row(matrix) :
                Qualifies(q, c) /\ REq(Ratio(q, c), Ratio(r, c))

\* C23: after each Simplex pivot on (pivot_row, pivot_col) the pivot column
\* holds 1 in pivot_row and 0 in every other row of the window, the objective
\* rows included (in Phase I also row 1, the objective row of Phase II).
C23_PivotColumnUnit ==
    [][(pc = "simplex" /\ pc' = "simplex"
            /\ splx'.iteration = splx.iteration + 1) =>
        LET c == select_pivot_column(matrix, PhaseKind)
            r == select_pivot_row(matrix, c, PhaseObjectiveRows)
        IN  \A row \in rows(matrix') :
                value(matrix', row, c) = IF row = r THEN One ELSE Zero]_vars

\* C24: during the forward reduction of the Gaussian engine, after every
\* iteration of the loop every cell (r, c) with c < pivot_col and
\* r >= pivot_row is exactly 0.0; pivot_col advances by one in every
\* iteration and pivot_row advances exactly in the iterations whose column
\* holds a non-zero entry at or below pivot_row; the loop runs at most N+1
\* iterations and ends with every cell below the main diagonal exactly 0.0.
C24_ForwardReduction ==
    /\ []((engine = "gaussian" /\ matrix # NoMatrix) =>
            /\ \A r \in rows(matrix) : \A c \in cols(matrix) :
                    (c < gauss.pivot_col /\ r >= gauss.pivot_row) =>
                        value(matrix, r, c) = Zero
            /\ gauss.pivot_col = gauss.steps
            /\ gauss.steps <= num_variables + 1
            /\ (~GaussLoopCondition(matrix, gauss) =>
                    \A r \in rows(matrix) : \A c \in cols(matrix) :
                        c < r => value(matrix, r, c) = Zero))
    /\ [][GaussStep =>
            /\ gauss'.pivot_col = gauss.pivot_col + 1
            /\ gauss'.pivot_row =
                IF \E r \in rows_from(matrix, gauss.pivot_row) :
                        ~RIsZero(value(matrix, r, gauss.pivot_col))
                THEN gauss.pivot_row + 1
                ELSE gauss.pivot_row]_vars

\* a reduction of a 3 x 3 system that met a degenerate column and ran the
\* N+1 iterations
C24_Witness ==
    /\ engine = "gaussian"
    /\ pc = "reduce"
    /\ num_variables = 3
    /\ ~GaussLoopCondition(matrix, gauss)
    /\ gauss.steps = num_variables + 1
    /\ gauss.pivot_row < gauss.pivot_col

\* C25: whenever the forward reduction of the Gaussian engine ends without
\* Underspecified, every diagonal cell (i, i) of the reduced matrix is not
\* zero, and every value of an Ok is finite: a system with a singular
\* coefficient matrix never ends in Ok.
C25_DiagonalNonZero ==
    /\ (engine = "gaussian" /\ pc = "reduce"
            /\ ~GaussLoopCondition(matrix, gauss)) =>
        \A i \in rows(matrix) : ~RIsZero(value(matrix, i, i))
    /\ (engine = "gaussian" /\ result.kind = "Ok") =>
        \A i \in 0..(num_variables - 1) : IsFinite(result.coeffs[i])

\* the number of points of the lattice: the product over the variables of
\* the number of values of min_i..=max_i, which is max_i - min_i + 1, or 0
\* when min_i > max_i
RECURSIVE LatticeSize(_)
LatticeSize(n) ==
    IF n = 0 THEN 1
    ELSE Max2(0, BruteBound(Problem, n - 1).max
                    - BruteBound(Problem, n - 1).min + 1)
            * LatticeSize(n - 1)

\* C26: the brute-force enumeration tests feasibility and compares the
\* objective only at the leaves of the recursion, after every variable
\* 0..N-1 has been assigned; each lattice point is tested once, so when the
\* enumeration has ended the number of tests is the product over the
\* variables of (max_i - min_i + 1).
C26_ChecksAtLeaves ==
    (engine = "brute" /\ brute # NoBrute) =>
        /\ brute.checks = brute.leaf_checks
        /\ (pc = "done" => brute.checks = LatticeSize(num_variables))

\* p comes before q, or is q, in the order of the enumeration: variable 0
\* outermost, every range ascending
LexLe(p, q) ==
    \/ p = q
    \/ \E i \in DOMAIN p :
        /\ p[i] < q[i]
        /\ \A j \in DOMAIN p : j < i => p[j] = q[j]

\* C27: when several feasible points of the lattice attain the objective of
\* the result, the brute-force engine returns the first of them in the
\* order of the enumeration, the lexicographically smallest.
C27_FirstOptimum ==
    (engine = "brute" /\ result.kind = "Ok") =>
        \A q \in Lattice :
            (meets_constraints(Problem, q)
                /\ REq(BruteObjectiveAt(q), result.objective))
            => LexLe(SolutionPoint, q)

-----------------------------------------------------------------------------
\* C28: in every state the builder calls can reach, every stored constraint
\* has exactly num_variables coefficients.
C28_ConstraintWidths ==
    pc = "idle" =>
        \A k \in 1..num_constraints :
            ExprLen(constraints[k].expr) = num_variables

-----------------------------------------------------------------------------
\* the step that narrows the window and zeroes the artificial columns
IsPhase2Transition == pc = "transition" /\ pc' = "simplex"

\* a pivot of the Phase II loop
IsPhase2Pivot ==
    /\ pc = "simplex" /\ pc' = "simplex"
    /\ splx.phase = 2
    /\ splx'.iteration = splx.iteration + 1

\* C29: after the window is narrowed with sub(1, 1), the Phase II transition
\* and every Phase II pivot leave every cell of storage row 0 and of storage
\* column 0 unchanged; the window's lower-right corner is the one of Phase I
\* (end_x = W, end_y = H); every cell the step writes lies inside the
\* window.
C29_Phase2Frame ==
    [][(IsPhase2Transition \/ IsPhase2Pivot) =>
        /\ matrix'.width = matrix.width /\ matrix'.height = matrix.height
        /\ DOMAIN matrix'.coeffs = DOMAIN matrix.coeffs
        /\ matrix'.start_x = 1 /\ matrix'.start_y = 1
        /\ matrix'.end_x = matrix.end_x /\ matrix'.end_y = matrix.end_y
        /\ matrix'.end_x = matrix.width /\ matrix'.end_y = matrix.height
        /\ \A o \in DOMAIN matrix.coeffs :
            /\ (RowOf(matrix, o) = 0 \/ ColOf(matrix, o) = 0) =>
                    matrix'.coeffs[o] = matrix.coeffs[o]
            /\ matrix'.coeffs[o] # matrix.coeffs[o] =>
                    /\ RowOf(matrix, o) \in rows(matrix')
                    /\ ColOf(matrix, o) \in cols(matrix')]_vars

\* a Phase II loop that has pivoted, over a matrix whose hidden row 0 holds
\* a non-zero cell in an artificial column
C29_Witness ==
    /\ engine = "simplex" /\ pc = "simplex"
    /\ splx.phase = 2 /\ splx.iteration >= 1
    /\ splx.num_artificial >= 1
    /\ matrix.start_x = 1 /\ matrix.start_y = 1
    /\ \E c \in cols_range(matrix, last_col(matrix) - splx.num_artificial,
                           last_col(matrix)) :
            ~RIsZero(value(matrix, 0, c))

=============================================================================
